---- MODULE Spec2Model ----
(***************************************************************************)
(* State-machine model of the mesh subnet coordination code:               *)
(*   - the epoch-driven consensus loop (Consensus.run_forever /            *)
(*     run_consensus), in its two revisions mesh/subnet/consensus ("mesh") *)
(*     and subnet/app/consensus ("app")                      -- Spec       *)
(*   - Consensus.compare_consensus_data as a function of its inputs        *)
(*                                                           -- SpecCompare *)
(*   - the proof-of-stake authorizer (ProofOfStakeAuthorizer) -- SpecAuth   *)
(*   - the commit-reveal predicate validator                               *)
(*     (MockHypertensorCommitReveal.__call__)             -- SpecPredicate *)
(*   - Consensus._main_loop with run_activate_subnet (Phase A) and         *)
(*     run_is_node_validator (Phase B), up to run_forever -- SpecActivate  *)
(*   - the rate-limiting authorizer (RateLimitAuthorizer)    -- SpecRate    *)
(*   - the heartbeat thread (ModuleHeartbeatThread) and the Server that    *)
(*     announces through it                              -- SpecHeartbeat  *)
(* Each subsystem has its own specification over its own variables; the    *)
(* variables of the other subsystems stay at their idle values.            *)
(***************************************************************************)
EXTENDS Integers, Sequences, FiniteSets, TLC

VARIABLES
  \* ---- the chain, as the consensus loop sees it: its clock is kept, what its
  \* other reads and writes answer is chosen by the environment at each call
  chEpoch,        \* subnet epoch of the chain head
  chElapsed,      \* blocks elapsed in that epoch
  faults,         \* transient chain faults (raised errors, failed receipts) so far
  \* ---- the Consensus process
  variant,        \* "mesh" | "app": which revision of consensus.py runs
  isMock,         \* app: isinstance(self.hypertensor, MockHypertensor)
  stop,           \* self.stop (mp.Event)
  pc,             \* position of the process
  started,        \* app run_forever: started
  last_epoch,     \* run_forever: last_epoch
  cur,            \* run_forever / run_consensus: current_epoch
  scores,         \* run_consensus: scores
  validator,      \* run_consensus: validator
  consensus_data, \* run_consensus: consensus_data
  is_voa,         \* app run_consensus: _is_validator_or_attestor
  previous_epoch_data, \* mesh: self.previous_epoch_data
  \* ---- observation (history) of the Consensus process
  calls,          \* epoch -> the chain writes issued for it, and those that succeeded
  obs,            \* what the running run_consensus invocation has seen and done
  mismatched,     \* epochs for which a comparison ended in a mismatch
  ran,            \* observation: "no" run_consensus invocation yet, or the
                  \* latest was the "first" for its epoch or ran the epoch
                  \* of the one before "again"
  \* ---- compare_consensus_data called on its own
  cmpPrev,        \* self.previous_epoch_data
  cmpIn,          \* the inputs of the last call
  cmpOut,         \* the outcome of the last call
  \* ---- ProofOfStakeAuthorizer
  auNow,          \* get_dht_time(), seconds
  auNonces,       \* self._recent_nonces: nonce -> expiration (0: no entry)
  auAccepted,     \* nonce -> the request last accepted with it, and when
  auOut,          \* the last validate_request / validate_response call
  \* ---- MockHypertensorCommitReveal
  pvEpoch,        \* subnet epoch of the chain head
  pvElapsed,      \* blocks elapsed in that epoch
  pvTracker,      \* self._peer_store_tracker
  pvPuts,         \* PUT requests evaluated so far
  pvAccepted,     \* observation: (epoch, key name, peer) -> PUTs accepted
  pvOut,          \* the last __call__
  \* ---- Consensus.run_activate_subnet (Phase A)
  aEpoch,         \* epoch of the chain head, as get_epoch_data reports it
  aPc,            \* position of the process in run_activate_subnet
  skip_activate_subnet, \* self.skip_activate_subnet
  aStop,          \* self.stop
  slot,           \* self.slot
  aLastEpoch,     \* run_activate_subnet: last_epoch
  errors_count,   \* run_activate_subnet: errors_count
  subnet_active,  \* run_activate_subnet: subnet_active
  aSeen,          \* observation: not-found epochs in a row, shutdown() called,
                  \* the subnet seen Active, the node's own id seen listed
  \* ---- RateLimitAuthorizer, for one peer (peers share no state)
  rlNow,              \* time.time(), seconds
  rlTicks,            \* clock moves so far
  peer_requests,      \* self.peer_requests[peer_id]: times of recorded requests
  blocked_peers,      \* self.blocked_peers: the peer's unblock_time, if any
  violation_counts,   \* self.violation_counts[peer_id]
  peer_threat_levels, \* self.peer_threat_levels[peer_id]
  ip_banned_peers,    \* peer_id in self.ip_banned_peers
  rlModerateAt,       \* observation: when an unblocked peer last arrived with
                      \* its per-minute or per-hour count at the limit
  rlOut,              \* the last validate_request call
  enable_ip_banning,  \* config.enable_ip_banning and an ip_ban_callback given
  rlSent,             \* observation: requests of the peer that reached the
                      \* rate limiter since time.time() last moved
  \* ---- ModuleHeartbeatThread and the Server that announces through it
  hbPc,          \* position of the heartbeat thread in run()
  hbCaller,      \* position of the Server thread (run, shutdown, announce)
  server_state,  \* self.server_info.state
  trigger,       \* self.trigger is set
  next_pings,    \* self.server_info.next_pings: "unset", "pings" or "none"
  hbStoring,     \* the state in the record declare_node is storing, if any
  hbBeats,       \* update periods that ran out so far
  hbAt,          \* observation: where the thread was when announce(OFFLINE)
                 \* was called, "none" before the call
  hbAfter,       \* observation: states carried by the heartbeats whose
                 \* declare_node returned after that call
  hbOnline       \* observation: "pending" once announce(ONLINE) has returned,
                 \* then "published" with the first heartbeat that does not
                 \* carry JOINING, or "slept" if an update period ran out first

consVars == << chEpoch, chElapsed, faults, variant, isMock,
               stop, pc, started, last_epoch, cur, scores, validator,
               consensus_data, is_voa, previous_epoch_data, calls, obs,
               mismatched, ran >>
cmpVars == << cmpPrev, cmpIn, cmpOut >>
authVars == << auNow, auNonces, auAccepted, auOut >>
predVars == << pvEpoch, pvElapsed, pvTracker, pvPuts, pvAccepted, pvOut >>

actVars == << aEpoch, aPc, skip_activate_subnet, aStop, slot, aLastEpoch,
              errors_count, subnet_active, aSeen >>

rateVars == << rlNow, rlTicks, peer_requests,
               blocked_peers, violation_counts, peer_threat_levels,
               ip_banned_peers, rlModerateAt, rlOut, enable_ip_banning,
               rlSent >>

hbVars == << hbPc, hbCaller, server_state, trigger, next_pings, hbStoring,
             hbBeats, hbAt, hbAfter, hbOnline >>

vars == << consVars, cmpVars, authVars, predVars, actVars, rateVars,
           hbVars >>

---------------------------------------------------------------------------
(* Bounds of the model *)

\* consensus loop
MaxEpoch == 1
BlocksPerEpoch == 2
MaxNode == 2
MaxFaults == 1
\* compare_consensus_data on its own
MaxLen == 2
MaxScore == 2
\* authorizer
MaxTicks == 3
MaxNonce == 1
\* predicate validator
PvMaxEpoch == 1
MaxPuts == 2
MaxPeer == 1
\* Phase A
MaxActEpoch == 6
\* RateLimitAuthorizer: violations counted and clock moves, and the request
\* limits of the RateLimitConfig the model runs (the defaults are 10, 100,
\* 1000 and 20)
MaxViolations == 11
MaxRlTicks == 2
MaxRequestsPerSecond == 2
MaxRequestsPerMinute == 5
MaxRequestsPerHour == 6
MaxBurst == 4

\* heartbeat thread
MaxBeats == 3

(* Program values *)

\* self.subnet_node_id
SubnetNodeId == 1
\* int(1e18), the stub score of get_scores, in units of 1e18
StubScore == 1

Epochs == 0..MaxEpoch
NodeIds == 1..MaxNode

\* Python's Optional: None is the empty tuple, a value x is <<x>>
None == << >>
Some(x) == << x >>

\* What get_rewards_validator can return: None, the string 'None', a node id
NoneValidator == [tag |-> "none", id |-> 0]
StrNoneValidator == [tag |-> "strNone", id |-> 0]
IdValidator(n) == [tag |-> "id", id |-> n]

\* {"subnet_node_id": n, "score": s}
ScoreEntry(n, s) == [subnet_node_id |-> n, score |-> s]

\* SubnetNodeConsensusData(subnet_node_id=n, score=s), the app's dataclass
SubnetNodeConsensusData(n, s) ==
  [cls |-> "SubnetNodeConsensusData", subnet_node_id |-> n, score |-> s]

---------------------------------------------------------------------------
(* Pure helpers of the consensus code *)

\* d.items() of a score dict, as frozenset(d.items()) keeps it
Items(d) == { <<"subnet_node_id", d.subnet_node_id>>, <<"score", d.score>> }

\* the comparison taking the position of each entry into account
ToItemSetOrdered(data) == { << i, Items(data[i]) >> : i \in DOMAIN data }

\* set(frozenset(d.items()) for d in data)
ToItemSet(data) == { Items(data[i]) : i \in DOMAIN data }

\* a.symmetric_difference(b)
SymmetricDifference(a, b) == (a \ b) \cup (b \ a)

\* one entry of get_scores' list: a dict (mesh) or a dataclass object (app)
NodeScore(var, n) ==
  IF var = "app" THEN SubnetNodeConsensusData(n, StubScore)
  ELSE ScoreEntry(n, StubScore)

\* get_scores: the Included nodes of the chain, in chain order, that have a
\* heartbeat in the DHT, each with the stub score
RECURSIVE GetScores(_, _, _)
GetScores(var, included, heartbeats) ==
  IF included = << >> THEN << >>
  ELSE LET rest == GetScores(var, Tail(included), heartbeats)
       IN IF Head(included) \in heartbeats
          THEN << NodeScore(var, Head(included)) >> \o rest
          ELSE rest

\* _get_attestation_ratio(consensus_data) < 0.66, for len(subnet_nodes) > 0
RatioBelowSuperMajority(cd) ==
  Cardinality(cd.attests) * 100 < 66 * cd.subnet_nodes

\* Consensus.compare_consensus_data(my_data, validator_data, epoch), mesh
\* revision.  prev is self.previous_epoch_data on entry; lookup is what
\* get_consensus_data_formatted(subnet_id, epoch - 1) answers if it is asked:
\* [raised, data].  The result is [raised, success, prev]: whether the call
\* raised, the value returned, and self.previous_epoch_data on exit.
CompareConsensusData(my_data, validator_data, prev, lookup) ==
  LET validator_data_set == ToItemSet(validator_data)
      my_data_set == ToItemSet(my_data)
      dif == SymmetricDifference(validator_data_set, my_data_set)
      Return(s) == [raised |-> FALSE, success |-> s, prev |-> Some(my_data_set)]
      Raise == [raised |-> TRUE, success |-> FALSE, prev |-> prev]
  IN IF Len(validator_data) = 0 /\ Len(my_data) = 0
     THEN [raised |-> FALSE, success |-> TRUE, prev |-> Some({})]
     ELSE IF validator_data_set = my_data_set THEN Return(TRUE)
     ELSE IF prev # None THEN Return(dif \subseteq prev[1])
     ELSE IF lookup.raised THEN Raise
     ELSE IF lookup.data = None THEN Return(FALSE)
     ELSE LET cd == lookup.data[1]
          IN IF cd.subnet_nodes = 0 THEN Raise  \* ZeroDivisionError
             ELSE IF RatioBelowSuperMajority(cd) THEN Return(FALSE)
             ELSE Return(dif \subseteq ToItemSet(cd.data))

\* Whether compare_consensus_data reaches its chain lookup of epoch - 1
CompareAsksChain(my_data, validator_data, prev) ==
  /\ ~(Len(validator_data) = 0 /\ Len(my_data) = 0)
  /\ ToItemSet(validator_data) # ToItemSet(my_data)
  /\ prev = None

\* subnet.app.consensus.utils.compare_consensus_data(my_data, validator_data)
\* == 1.0: set equality over (node_id, score) pairs
AppCompareConsensusData(my_data, validator_data) ==
  { << validator_data[i].subnet_node_id, validator_data[i].score >> :
      i \in DOMAIN validator_data }
    = { << my_data[i].subnet_node_id, my_data[i].score >> : i \in DOMAIN my_data }

\* the check for no node at all
NeverAttested(cd) == FALSE

\* the already-attested check: our subnet_node_id among consensus_data.attests
\* (mesh: the for loop over attests; app: did_node_attest)
AlreadyAttested(cd) == SubnetNodeId \in cd.attests

\* `validator is not None or validator != 'None'`: ends the wait for a validator
ValidatorChosen(v) == (v # NoneValidator) \/ (v # StrNoneValidator)

\* asdict(s) for a SubnetNodeConsensusData
AsDict(s) == ScoreEntry(s.subnet_node_id, s.score)

\* a proposal that drops the scores
ProposeNothing(var, sc) == << >>

\* the data argument of propose_attestation
ProposeData(var, sc) ==
  IF var = "app" THEN [i \in DOMAIN sc |-> AsDict(sc[i])] ELSE sc

\* an attest window that never closes
NeverPastAttestWindow(elapsed) == FALSE

\* epoch_data.percent_complete > 0.25
PastAttestWindow(elapsed) == elapsed * 100 > 25 * BlocksPerEpoch

\* a queue check that never finds a queue node id
NoQueueNodeId(cd) == FALSE

\* consensus_data.prioritize_queue_node_id is not None
\*   or consensus_data.remove_queue_node_id is not None
HasQueueNodeId(cd) == cd.queue

---------------------------------------------------------------------------
(* The chain as the consensus loop's environment *)

\* a further transient chain fault (a raised error, a failed receipt) may happen
CanFault == faults < MaxFaults

\* the Included nodes as the chain lists them: any order, no node twice
IncludedLists ==
  { sq \in UNION { [1..n -> NodeIds] : n \in 0..MaxNode } :
      \A i, j \in DOMAIN sq : i # j => sq[i] # sq[j] }

\* the score lists a validator may have submitted
Submissions(var) == { GetScores(var, inc, NodeIds) : inc \in IncludedLists }

ConsensusDataRecord(vid, data, att, n, q) ==
  [validator_id |-> vid, data |-> data, attests |-> att, subnet_nodes |-> n,
   queue |-> q]

\* what get_rewards_validator(subnet_id, epoch) may answer
ValidatorAnswers ==
  { NoneValidator, StrNoneValidator } \cup { IdValidator(n) : n \in NodeIds }

\* what get_consensus_data_formatted(subnet_id, current_epoch) may answer when
\* the data of validator vid exists; queue: prioritize_queue_node_id or
\* remove_queue_node_id is set (fields of the app revision's chain data only)
ConsensusDataAnswers(var, vid) ==
  { ConsensusDataRecord(vid, d, a, MaxNode, q) :
      d \in Submissions(var), a \in SUBSET NodeIds,
      q \in IF var = "app" THEN BOOLEAN ELSE { FALSE } }

\* what get_consensus_data_formatted(subnet_id, epoch - 1) may answer inside
\* compare_consensus_data, for the score lists `lists`: the attests are none,
\* this node alone or every node, out of no node (the null ConsensusData),
\* MaxNode nodes or one more
PreviousDataAnswers(lists) ==
  { ConsensusDataRecord(SubnetNodeId, d, a, n, FALSE) :
      d \in lists,
      a \in { {}, { SubnetNodeId }, NodeIds },
      n \in { 0, MaxNode, MaxNode + 1 } }

\* what that lookup may do: [raised, data]
PreviousLookups(lists) ==
  { [raised |-> FALSE, data |-> d] :
      d \in { None } \cup { Some(r) : r \in PreviousDataAnswers(lists) } }
    \cup { [raised |-> TRUE, data |-> None] }

chainVars == << chEpoch, chElapsed >>
histVars == << calls, obs, mismatched >>
runVars == << cur, scores, validator, consensus_data, is_voa >>
nonConsVars == << cmpVars, authVars, predVars, actVars, rateVars, hbVars >>

\* the chain moves on by one block
AdvanceBlock ==
  /\ pc # "exited"
  /\ IF chElapsed + 1 < BlocksPerEpoch
     THEN chElapsed' = chElapsed + 1 /\ chEpoch' = chEpoch
     ELSE chEpoch < MaxEpoch /\ chEpoch' = chEpoch + 1 /\ chElapsed' = 0
  /\ UNCHANGED << faults, variant, isMock, stop, pc, started, last_epoch,
                  runVars, previous_epoch_data, histVars, ran, nonConsVars >>

\* Consensus.shutdown: self.stop.set()
SetStop ==
  /\ ~stop
  /\ pc # "exited"
  /\ stop' = TRUE
  /\ UNCHANGED << chainVars, faults, variant, isMock, pc, started, last_epoch,
                  runVars, previous_epoch_data, histVars, ran, nonConsVars >>

---------------------------------------------------------------------------
(* The Consensus process: run_forever *)

\* nothing seen or done: no run_consensus invocation is under way
\* waitEnd: how the wait for the validator ended ("stop": self.stop was set,
\* "epoch": the chain had left cur, "null": the chain answered None or 'None'
\* with the epoch still cur, "chosen": the chain named a validator);
\* window: what the attestor loop's last epoch read showed ("in": the epoch is
\* still cur and at most a quarter complete), "used" once an attest followed it;
\* unchecked: an attest was issued with no such read in its loop pass;
\* queuedAttest: an attest was issued on a submission with a queue node id
NoObs == [role |-> "none", lookup |-> "none", compared |-> "none",
          proposes |-> 0, attests |-> 0, sent |-> None,
          window |-> "none", unchecked |-> FALSE, queuedAttest |-> FALSE,
          waitEnd |-> "none"]

\* no chain write issued for an epoch
\* lateSkip: the attestor loop read the epoch past its first quarter with the
\* validator's data still missing
NoCalls == [propose |-> 0, attest |-> 0, proposeOk |-> 0, attestOk |-> 0,
            afterOk |-> FALSE, lateSkip |-> FALSE]

\* the locals of run_consensus are gone once run_forever goes on
RunLocalsGone ==
  /\ scores' = << >>
  /\ validator' = NoneValidator
  /\ consensus_data' = None
  /\ is_voa' = FALSE
  /\ obs' = NoObs

\* a stop event that is never seen set
IsNeverSet(event) == FALSE

\* self.stop.is_set()
IsSet(event) == event

\* a loop that marks no epoch before run_consensus has returned
MarkedNever(var) == FALSE

\* run_forever: last_epoch = current_epoch comes before
\* `await self.run_consensus(current_epoch)` in the app revision, after it in
\* the mesh revision
MarkedBeforeRun(var) == var = "app"

\* run_forever: the loop condition finds self.stop set
RFStop ==
  /\ pc = "rf_top"
  /\ IsSet(stop)
  /\ pc' = "exited"
  /\ UNCHANGED << chainVars, faults, variant, isMock, stop, started, last_epoch,
                  runVars, previous_epoch_data, histVars, ran, nonConsVars >>

\* run_forever: one pass of the loop up to the epoch test
RFReadEpoch ==
  /\ pc = "rf_top"
  /\ ~IsSet(stop)
  /\ IF variant = "app" /\ ~started
     THEN \* start on a fresh epoch: wait out the running one, then `continue`
          /\ started' = TRUE
          /\ pc' = "rf_sleep"
          /\ UNCHANGED << last_epoch, cur, ran >>
     ELSE IF Some(chEpoch) # last_epoch
     THEN /\ cur' = chEpoch
          /\ last_epoch' = IF MarkedBeforeRun(variant) THEN Some(chEpoch)
                            ELSE last_epoch
          /\ ran' = IF ran # "no" /\ cur = chEpoch THEN "again" ELSE "first"
          /\ pc' = "rc_start"
          /\ UNCHANGED started
     ELSE /\ pc' = IF variant = "app" THEN "rf_after" ELSE "rf_sleep"
          /\ UNCHANGED << started, last_epoch, cur, ran >>
  /\ UNCHANGED << chainVars, faults, variant, isMock, stop, scores, validator,
                  consensus_data, is_voa, previous_epoch_data, histVars,
                  nonConsVars >>

\* a chain read of run_forever or run_consensus raises: the exception unwinds
\* to run_forever's `except Exception`
ChainReadRaises ==
  /\ \/ pc \in { "rf_top", "rc_resolve", "rc_att_loop" } /\ ~stop
     \/ pc \in { "rc_start", "rc_validator" }
  /\ CanFault
  /\ faults' = faults + 1
  /\ pc' = "rf_backoff"
  /\ UNCHANGED << chainVars, variant, isMock, stop, started, last_epoch, runVars,
                  previous_epoch_data, histVars, ran, nonConsVars >>

\* run_forever after run_consensus returned: (mesh) last_epoch = current_epoch,
\* then the fresh get_subnet_epoch_data, which may raise
RFAfter ==
  /\ pc = "rf_after"
  /\ last_epoch' = IF variant = "mesh" THEN Some(cur) ELSE last_epoch
  /\ \/ pc' = "rf_sleep" /\ UNCHANGED faults
     \/ CanFault /\ faults' = faults + 1 /\ pc' = "rf_backoff"
  /\ RunLocalsGone
  /\ UNCHANGED << chainVars, variant, isMock, stop, started, cur,
                  previous_epoch_data, calls, mismatched, ran, nonConsVars >>

\* run_forever: the wait (asyncio.wait_for with a timeout) is over
RFSleep ==
  /\ pc = "rf_sleep"
  /\ pc' = "rf_top"
  /\ UNCHANGED << chainVars, faults, variant, isMock, stop, started, last_epoch,
                  runVars, previous_epoch_data, histVars, ran, nonConsVars >>

\* run_forever: except Exception: sleep(BLOCK_SECS), then the loop again
RFBackoff ==
  /\ pc = "rf_backoff"
  /\ pc' = "rf_top"
  /\ RunLocalsGone
  /\ UNCHANGED << chainVars, faults, variant, isMock, stop, started, last_epoch,
                  cur, previous_epoch_data, calls, mismatched, ran, nonConsVars >>

---------------------------------------------------------------------------
(* The Consensus process: run_consensus *)

\* run_consensus: scores = self.get_scores(current_epoch)
RCStart ==
  /\ pc = "rc_start"
  /\ \E included \in IncludedLists, heartbeats \in SUBSET NodeIds :
       scores' = GetScores(variant, included, heartbeats)
  /\ validator' = NoneValidator
  /\ consensus_data' = None
  /\ is_voa' = FALSE
  /\ obs' = NoObs
  /\ pc' = "rc_resolve"
  /\ UNCHANGED << chainVars, faults, variant, isMock, stop, started, last_epoch,
                  cur, previous_epoch_data, calls, mismatched, ran, nonConsVars >>

\* run_consensus: the wait for the validator and the branch on the role
RCResolve ==
  /\ pc = "rc_resolve"
  /\ \E answer \in ValidatorAnswers :
       LET v == IF stop \/ chEpoch # cur THEN NoneValidator ELSE answer
       IN IF ~stop /\ chEpoch = cur /\ ~ValidatorChosen(v)
          THEN \* sleep(BLOCK_SECS), then ask again
               /\ pc' = "rc_resolve"
               /\ UNCHANGED << validator, obs >>
          ELSE /\ validator' = v
               /\ pc' = IF v = NoneValidator THEN "rf_after"
                        ELSE IF v = IdValidator(SubnetNodeId) THEN "rc_validator"
                        ELSE "rc_att_loop"
               /\ obs' = [obs EXCEPT
                    !.role = IF v = NoneValidator THEN @
                             ELSE IF v = IdValidator(SubnetNodeId)
                             THEN "validator" ELSE "attestor",
                    !.waitEnd = IF stop THEN "stop"
                                ELSE IF chEpoch # cur THEN "epoch"
                                ELSE IF answer \in { NoneValidator,
                                                     StrNoneValidator }
                                THEN "null" ELSE "chosen"]
  /\ UNCHANGED << chainVars, faults, variant, isMock, stop, started, last_epoch,
                  cur, scores, consensus_data, is_voa, previous_epoch_data,
                  calls, mismatched, ran, nonConsVars >>

\* validator branch: see if the attestation proposal is already on chain
RCCheckProposed ==
  /\ pc = "rc_validator"
  /\ \E cd \in { None } \cup
               { Some(r) : r \in ConsensusDataAnswers(variant, validator.id) } :
       /\ consensus_data' = cd
       /\ IF cd # None
          THEN pc' = "rf_after" /\ obs' = [obs EXCEPT !.lookup = "nonnull"]
          ELSE pc' = "rc_propose" /\ obs' = [obs EXCEPT !.lookup = "null"]
  /\ UNCHANGED << chainVars, faults, variant, isMock, stop, started, last_epoch,
                  cur, scores, validator, is_voa, previous_epoch_data, calls,
                  mismatched, ran, nonConsVars >>

\* validator branch: self.hypertensor.propose_attestation(subnet_id, data=...);
\* the call returns a receipt (ok, fail) or raises
RCPropose ==
  /\ pc = "rc_propose"
  /\ \E res \in { "ok", "fail", "raise" } :
       /\ res # "ok" => CanFault
       /\ faults' = IF res = "ok" THEN faults ELSE faults + 1
       /\ calls' = [calls EXCEPT
            ![cur].propose = @ + 1,
            ![cur].proposeOk = IF res = "ok" THEN @ + 1 ELSE @,
            ![cur].afterOk = @ \/ calls[cur].proposeOk > 0]
       /\ obs' = [obs EXCEPT !.proposes = @ + 1,
                             !.sent = Some(ProposeData(variant, scores))]
       /\ pc' = IF res = "raise" THEN "rf_backoff" ELSE "rf_after"
  /\ UNCHANGED << chainVars, variant, isMock, stop, started, last_epoch, runVars,
                  previous_epoch_data, mismatched, ran, nonConsVars >>

\* attestor branch: one pass of the loop up to the comparison
RCAttLoop ==
  /\ pc = "rc_att_loop"
  /\ IF IsSet(stop)
     THEN pc' = "rf_after" /\ UNCHANGED << consensus_data, calls, obs >>
     ELSE \E fetched \in { None } \cup
                { Some(r) : r \in ConsensusDataAnswers(variant, validator.id) } :
          LET cd == IF consensus_data = None THEN fetched ELSE consensus_data
              quarter == chElapsed * 100 <= 25 * BlocksPerEpoch
          IN /\ consensus_data # None => fetched = None   \* no fetch is made
             /\ consensus_data' = cd
             /\ IF variant = "app"   \* the revision that reads percent_complete
                THEN /\ obs' = [obs EXCEPT !.window =
                          IF chEpoch = cur /\ quarter THEN "in" ELSE "out"]
                     /\ calls' = [calls EXCEPT ![cur].lateSkip =
                          @ \/ (cd = None /\ chEpoch = cur /\ ~quarter)]
                ELSE UNCHANGED << calls, obs >>
             /\ IF chEpoch # cur
                   \/ (variant = "app" /\ PastAttestWindow(chElapsed))
                THEN pc' = "rf_after"
                ELSE IF cd = None THEN pc' = "rc_att_sleep"
                ELSE IF variant = "app" /\ HasQueueNodeId(cd[1])
                THEN pc' = "rf_after"
                ELSE pc' = "rc_compare"
  /\ UNCHANGED << chainVars, faults, variant, isMock, stop, started, last_epoch,
                  cur, scores, validator, is_voa, previous_epoch_data, mismatched,
                  ran, nonConsVars >>

\* attestor branch: sleep(BLOCK_SECS), then the loop again
RCAttSleep ==
  /\ pc = "rc_att_sleep"
  /\ pc' = "rc_att_loop"
  /\ UNCHANGED << chainVars, faults, variant, isMock, stop, started, last_epoch,
                  runVars, previous_epoch_data, histVars, ran, nonConsVars >>

\* attestor branch, mesh: compare_consensus_data(scores, validator_data, epoch)
RCCompareMesh ==
  /\ pc = "rc_compare"
  /\ variant = "mesh"
  /\ LET validator_data == consensus_data[1].data
         asks == CompareAsksChain(scores, validator_data, previous_epoch_data)
     IN \E lookup \in IF asks THEN PreviousLookups(Submissions("mesh"))
                      ELSE { [raised |-> FALSE, data |-> None] } :
          /\ lookup.raised => CanFault
          /\ LET r == CompareConsensusData(scores, validator_data,
                                           previous_epoch_data, lookup)
             IN /\ previous_epoch_data' = r.prev
                /\ faults' = IF lookup.raised THEN faults + 1 ELSE faults
                /\ IF r.raised
                   THEN pc' = "rf_backoff" /\ UNCHANGED << obs, mismatched >>
                   ELSE IF r.success
                   THEN /\ pc' = "rc_attest"
                        /\ obs' = [obs EXCEPT !.compared = "match"]
                        /\ UNCHANGED mismatched
                   ELSE /\ pc' = "rf_after"
                        /\ obs' = [obs EXCEPT !.compared = "mismatch"]
                        /\ mismatched' = mismatched \cup { cur }
  /\ UNCHANGED << chainVars, variant, isMock, stop, started, last_epoch, runVars,
                  calls, ran, nonConsVars >>

\* attestor branch, app: 1.0 == compare_consensus_data(...), then the one-time
\* is_validator_or_attestor(hypertensor, subnet_id, subnet_node_id)
RCCompareApp ==
  /\ pc = "rc_compare"
  /\ variant = "app"
  /\ IF AppCompareConsensusData(scores, consensus_data[1].data)
     THEN /\ UNCHANGED mismatched
          /\ obs' = [obs EXCEPT !.compared = "match"]
          /\ IF is_voa
             THEN /\ pc' = "rc_attest"
                  /\ UNCHANGED << is_voa, faults >>
             ELSE \E answer \in { "yes", "no", "raise" } :
                    /\ answer = "raise" => CanFault
                    /\ faults' = IF answer = "raise" THEN faults + 1 ELSE faults
                    /\ is_voa' = (answer = "yes")
                    /\ pc' = CASE answer = "yes" -> "rc_attest"
                               [] answer = "no" -> "rf_after"
                               [] OTHER -> "rf_backoff"
     ELSE /\ pc' = "rf_after"
          /\ obs' = [obs EXCEPT !.compared = "mismatch"]
          /\ mismatched' = mismatched \cup { cur }
          /\ UNCHANGED << is_voa, faults >>
  /\ UNCHANGED << chainVars, variant, isMock, stop, started, last_epoch, cur,
                  scores, validator, consensus_data, previous_epoch_data, calls,
                  ran, nonConsVars >>

\* an attestor loop that goes round again whatever the receipt says
AfterAttestReceiptLooping(res) == "rc_att_sleep"

\* where the attestor loop goes after attest() returned a receipt
AfterAttestReceipt(res) ==
  IF variant = "app" /\ isMock THEN "rf_after"   \* the mock's receipt is not read
  ELSE IF res = "ok" THEN "rf_after"
  ELSE "rc_att_sleep"

\* attestor branch: the already-attested check, then self.hypertensor.attest
RCAttest ==
  /\ pc = "rc_attest"
  /\ IF AlreadyAttested(consensus_data[1])
     THEN /\ pc' = "rf_after"
          /\ UNCHANGED << faults, calls, obs >>
     ELSE \E res \in { "ok", "fail", "raise" } :
            /\ res # "ok" => CanFault
            /\ faults' = IF res = "ok" THEN faults ELSE faults + 1
            /\ calls' = [calls EXCEPT
                 ![cur].attest = @ + 1,
                 ![cur].attestOk = IF res = "ok" THEN @ + 1 ELSE @,
                 ![cur].afterOk = @ \/ calls[cur].attestOk > 0]
            /\ obs' = [obs EXCEPT
                 !.attests = @ + 1,
                 !.unchecked = @ \/ obs.window # "in",
                 !.window = "used",
                 !.queuedAttest = @ \/ consensus_data[1].queue]
            /\ pc' = IF res = "raise" THEN "rf_backoff" ELSE AfterAttestReceipt(res)
  /\ UNCHANGED << chainVars, variant, isMock, stop, started, last_epoch, runVars,
                  previous_epoch_data, mismatched, ran, nonConsVars >>

---------------------------------------------------------------------------
(* compare_consensus_data called on its own *)

\* the score dicts a list may hold
CmpEntries == { ScoreEntry(n, s) : n \in NodeIds, s \in 1..MaxScore }

\* the lists my_data and validator_data are drawn from
CmpLists == UNION { [1..n -> CmpEntries] : n \in 0..MaxLen }

\* the data the chain may hold for the previous epoch
CmpChainLists == UNION { [1..n -> CmpEntries] : n \in 0..(MaxLen - 1) }

\* what self.previous_epoch_data can be on entry: None (first epoch after a
\* start) or what an earlier call left there
CmpPrevs == { None } \cup { Some(ToItemSet(l)) : l \in CmpLists }

NoCmpOut == [raised |-> FALSE, success |-> FALSE, prev |-> None]

\* self.compare_consensus_data(my_data, validator_data, epoch) with the chain
\* holding cmpIn.lookup for epoch - 1
CompareCall ==
  /\ ~cmpIn.called
  /\ LET r == CompareConsensusData(cmpIn.my, cmpIn.val, cmpPrev, cmpIn.lookup)
     IN /\ cmpIn' = [cmpIn EXCEPT !.called = TRUE]
        /\ cmpOut' = r
        /\ cmpPrev' = r.prev
  /\ UNCHANGED << consVars, authVars, predVars, actVars, rateVars,
                  hbVars >>

---------------------------------------------------------------------------
(* ProofOfStakeAuthorizer *)

\* _MAX_CLIENT_SERVICER_TIME_DIFF = timedelta(minutes=1), in seconds
MaxClientServicerTimeDiff == 60
\* the nonce is kept for _MAX_CLIENT_SERVICER_TIME_DIFF.total_seconds() * 3
NonceTtlFactor == 3

\* the clock moves in steps of one _MAX_CLIENT_SERVICER_TIME_DIFF; a request
\* is stamped with such a time or with one second more
AuTimes ==
  { k * MaxClientServicerTimeDiff + d : k \in 0..MaxTicks, d \in { 0, 1 } }
Nonces == 1..MaxNonce

\* a request as validate_request reads it: auth.nonce, auth.time, whether the
\* signature verifies, and auth.service_public_key ("": not set or our own key,
\* "other": another peer's key)
Requests ==
  [nonce : Nonces, time : AuTimes, sigOk : BOOLEAN,
   svc : { "", "other" }]

\* a response as validate_response reads it
Responses == [sigOk : BOOLEAN, nonceMatches : BOOLEAN]

\* what self.pos.proof_of_stake(public_key) may do
PosAnswers == { "true", "false", "raise" }

Abs(x) == IF x < 0 THEN -x ELSE x

\* TimedStorage: `nonce in storage` while frozen sees every entry still held
NonceHeld(nonces, nonce) == nonces[nonce] # 0

\* TimedStorage: an access outside freeze() evicts the expired entries first
RemoveOutdated(nonces, now) ==
  [n \in DOMAIN nonces |-> IF nonces[n] >= now THEN nonces[n] ELSE 0]

\* a clock test that fails at the limit already
ClockSkewedFromLimit(time, now) ==
  Abs(time - now) >= MaxClientServicerTimeDiff

\* abs(auth.time - current_time) >
\*   self._MAX_CLIENT_SERVICER_TIME_DIFF.total_seconds()
ClockSkewed(time, now) == Abs(time - now) > MaxClientServicerTimeDiff

\* ProofOfStakeAuthorizer.validate_request: [result, nonces, asked]
ValidateRequest(req, now, nonces, pos) ==
  LET Reject == [result |-> FALSE, nonces |-> nonces, asked |-> FALSE]
      evicted == RemoveOutdated(nonces, now)
  IN IF ~req.sigOk THEN Reject
     ELSE IF req.svc # "" THEN Reject
     ELSE IF ClockSkewed(req.time, now) THEN Reject
     ELSE IF NonceHeld(nonces, req.nonce) THEN Reject
     ELSE IF NonceHeld(evicted, req.nonce)
     THEN [result |-> FALSE, nonces |-> evicted, asked |-> FALSE]
     ELSE IF pos = "true"
     THEN [result |-> TRUE, nonces |-> evicted, asked |-> TRUE]
     ELSE IF pos = "false"
     THEN [result |-> FALSE, nonces |-> evicted, asked |-> TRUE]
     ELSE [result |-> TRUE,
           nonces |-> [evicted EXCEPT ![req.nonce] =
                         now + MaxClientServicerTimeDiff * NonceTtlFactor],
           asked |-> TRUE]

\* ProofOfStakeAuthorizer.validate_response: [result, asked]
ValidateResponse(resp, pos) ==
  IF ~resp.sigOk THEN [result |-> FALSE, asked |-> FALSE]
  ELSE IF ~resp.nonceMatches THEN [result |-> FALSE, asked |-> FALSE]
  ELSE IF pos = "true" THEN [result |-> TRUE, asked |-> TRUE]
  ELSE IF pos = "false" THEN [result |-> FALSE, asked |-> TRUE]
  ELSE [result |-> TRUE, asked |-> TRUE]

\* skew: by how much auth.time and the clock differed; clean: the signature
\* verified, the request was for this peer, its nonce was not held and the
\* proof of stake was answered true
NoAuOut == [kind |-> "none", pos |-> "notAsked", result |-> FALSE,
            replayAge |-> None, skew |-> 0, clean |-> FALSE]

\* get_dht_time() moves on
AuTick ==
  /\ auNow < MaxTicks * MaxClientServicerTimeDiff
  /\ auNow' = auNow + MaxClientServicerTimeDiff
  /\ UNCHANGED << auNonces, auAccepted, auOut, consVars, cmpVars, predVars,
                  actVars, rateVars,
                  hbVars >>

\* a peer presents a request: await authorizer.validate_request(request)
AuthValidateRequest ==
  /\ \E req \in Requests, pos \in PosAnswers :
       LET r == ValidateRequest(req, auNow, auNonces, pos)
           before == auAccepted[req.nonce]
           replay == before # None /\ before[1].req = req
       IN /\ r.asked \/ pos = "true"     \* no answer is drawn if none is asked
          /\ auNonces' = r.nonces
          /\ auAccepted' = IF r.result
                           THEN [auAccepted EXCEPT ![req.nonce] =
                                   Some([req |-> req, at |-> auNow])]
                           ELSE auAccepted
          /\ auOut' = [kind |-> "request",
                       pos |-> IF r.asked THEN pos ELSE "notAsked",
                       result |-> r.result,
                       replayAge |-> IF replay THEN Some(auNow - before[1].at)
                                     ELSE None,
                       skew |-> IF req.time < auNow THEN auNow - req.time
                                ELSE req.time - auNow,
                       clean |-> /\ req.sigOk
                                 /\ req.svc = ""
                                 /\ auNonces[req.nonce] = 0
                                 /\ pos = "true"]
  /\ UNCHANGED << auNow, consVars, cmpVars, predVars, actVars, rateVars,
                  hbVars >>

\* a peer's response is checked: await authorizer.validate_response(response, request)
AuthValidateResponse ==
  /\ \E resp \in Responses, pos \in PosAnswers :
       LET r == ValidateResponse(resp, pos)
       IN /\ r.asked \/ pos = "true"
          /\ auOut' = [kind |-> "response",
                       pos |-> IF r.asked THEN pos ELSE "notAsked",
                       result |-> r.result, replayAge |-> None,
                       skew |-> 0, clean |-> FALSE]
  /\ UNCHANGED << auNow, auNonces, auAccepted, consVars, cmpVars, predVars,
                  actVars, rateVars,
                  hbVars >>

---------------------------------------------------------------------------
(* MockHypertensorCommitReveal *)

\* COMMIT_DEADLINE = 0.5 and REVEAL_DEADLINE = 0.6, in percent
CommitDeadlinePct == 50
RevealDeadlinePct == 60
\* mesh.substrate.config
BlockSecs == 6
EpochLength == 100
\* MAX_EPOCH_HISTORY
MaxEpochHistory == 5
\* per_peer_epoch_limits
NodeLimit == 100
CommitLimit == 1
RevealLimit == 1

\* a heartbeat cap as long as the commit cap
LooseHeartBeatTime == BlockSecs * EpochLength * 2

\* MAX_HEART_BEAT_TIME, MAX_COMMIT_TIME, MAX_REVEAL_TIME, in seconds
MaxHeartBeatTime == (BlockSecs * EpochLength * 11) \div 10
MaxCommitTime == BlockSecs * EpochLength * 2
MaxRevealTime == BlockSecs * EpochLength * 2

\* the epochs at which the predicate is asked: the first ones, and one that
\* is MAX_EPOCH_HISTORY past the last of them
PvEpochs == 0..PvMaxEpoch \cup { PvMaxEpoch + MaxEpochHistory }
Peers == 1..MaxPeer
KeyTypes == { "node", "commit", "reveal" }

\* the blocks_elapsed values at which the predicate is asked
PvPoints == { 0, 10, 15, 20, 50, 51, 60, 61 }

\* record.expiration_time - get_dht_time() of a record
ExpOffsets ==
  { MaxHeartBeatTime, MaxHeartBeatTime + 1, MaxCommitTime, MaxCommitTime + 1 }

\* record.key: "node", "commit_epoch_{e}", "reveal_epoch_{e}",
\* "consensus_epoch_{e}", or any other key
PvKeys ==
  { [name |-> "node", epoch |-> 0], [name |-> "other", epoch |-> 0] }
    \cup { [name |-> k, epoch |-> e] :
             k \in { "commit", "reveal", "consensus" }, e \in PvEpochs }

\* record.subkey: carries its owner's public key (a peer) or none
PvSubkeys == { None } \cup { Some(p) : p \in Peers }

PvRecords == [key : PvKeys, subkey : PvSubkeys, expOff : ExpOffsets]

\* extract_peer_id_from_record_validator(record.subkey)
ExtractPeerIdFromRecordValidator(subkey) == subkey

\* a predicate that takes no request for a GET
NeverGet(type) == FALSE

\* type is DHTRecordRequestType.GET
IsGet(type) == type = "GET"

\* a key table that takes the commit and reveal keys of any epoch
GetKeyTypeOfAnyEpoch(key, current_epoch) ==
  IF key.name \in KeyTypes THEN Some(key.name) ELSE None

\* _get_key_type: valid_keys.get(record.key, None)
GetKeyType(key, current_epoch) ==
  IF key.name = "node" THEN Some("node")
  ELSE IF key.name = "commit" /\ key.epoch = current_epoch THEN Some("commit")
  ELSE IF key.name = "reveal" /\ key.epoch = current_epoch THEN Some("reveal")
  ELSE None

\* self.per_peer_epoch_limits.get(key_type, 1)
PerPeerEpochLimit(key_type) ==
  CASE key_type = "node" -> NodeLimit
    [] key_type = "commit" -> CommitLimit
    [] key_type = "reveal" -> RevealLimit
    [] OTHER -> 1

NoStores == [x \in KeyTypes \X Peers |-> 0]

\* reading self._peer_store_tracker[epoch] creates the entry (defaultdict)
TrackerTouch(tracker, epoch) ==
  [e \in DOMAIN tracker \cup { epoch } |->
     IF e \in DOMAIN tracker THEN tracker[e] ELSE NoStores]

\* a store limit that is never reached
NeverExceededStoreLimit(tracker, peer_id, key_type, epoch) == FALSE

\* _has_exceeded_store_limit, on the tracker after its read
HasExceededStoreLimit(tracker, peer_id, key_type, epoch) ==
  tracker[epoch][<< key_type, peer_id >>] >= PerPeerEpochLimit(key_type)

\* _record_peer_store
RecordPeerStore(tracker, peer_id, key_type, epoch) ==
  [tracker EXCEPT ![epoch][<< key_type, peer_id >>] = @ + 1]

\* a cleanup that deletes nothing
KeepAllEpochs(tracker, current_epoch) == tracker

\* _cleanup_old_epochs
CleanupOldEpochs(tracker, current_epoch) ==
  [e \in { x \in DOMAIN tracker : ~(x < current_epoch - MaxEpochHistory) } |->
     tracker[e]]

\* a rejection that counts the PUT against the peer's quota all the same
ReturnFalseCounted(tracker, peer_id, key_type, epoch) ==
  [result |-> FALSE,
   tracker |-> RecordPeerStore(tracker, peer_id, key_type, epoch)]

\* return False after the quota was read: _record_peer_store is not reached
ReturnFalse(tracker, peer_id, key_type, epoch) ==
  [result |-> FALSE, tracker |-> tracker]

\* percent_complete >= deadline
PercentAtLeast(elapsed, pct) == elapsed * 100 >= pct * EpochLength

\* percent_complete > deadline, with percent_complete = blocks_elapsed / epoch_length
PercentAbove(elapsed, pct) == elapsed * 100 > pct * EpochLength

\* MockHypertensorCommitReveal.__call__(record, type): [result, tracker].
\* ed is what self.epoch_data() does: [raised, epoch, elapsed]
PredicateCall(record, type, ed, tracker) ==
  LET caller_peer_id == ExtractPeerIdFromRecordValidator(record.subkey)
  IN IF caller_peer_id = None THEN [result |-> FALSE, tracker |-> tracker]
     ELSE IF IsGet(type) THEN [result |-> TRUE, tracker |-> tracker]
     ELSE IF ed.raised THEN [result |-> FALSE, tracker |-> tracker]
     ELSE
       LET cleaned == CleanupOldEpochs(tracker, ed.epoch)
           key_type == GetKeyType(record.key, ed.epoch)
       IN IF key_type = None THEN [result |-> FALSE, tracker |-> cleaned]
          ELSE
            LET read == TrackerTouch(cleaned, ed.epoch)
                kt == key_type[1]
                peer == caller_peer_id[1]
                Reject == ReturnFalse(read, peer, kt, ed.epoch)
            IN IF HasExceededStoreLimit(read, peer, kt, ed.epoch) THEN Reject
               ELSE IF kt = "node" /\ record.expOff > MaxHeartBeatTime
               THEN Reject
               ELSE IF kt = "commit"
                       /\ (PercentAbove(ed.elapsed, CommitDeadlinePct)
                           \/ record.expOff > MaxCommitTime)
               THEN Reject
               ELSE IF kt = "reveal"
                       /\ (~PercentAbove(ed.elapsed, CommitDeadlinePct)
                           \/ PercentAbove(ed.elapsed, RevealDeadlinePct)
                           \/ record.expOff > MaxRevealTime)
               THEN Reject
               ELSE [result |-> TRUE,
                     tracker |-> RecordPeerStore(read, peer, kt, ed.epoch)]

NoPvOut == [called |-> FALSE, type |-> "GET",
            record |-> [key |-> [name |-> "node", epoch |-> 0],
                        subkey |-> None, expOff |-> MaxHeartBeatTime],
            raised |-> FALSE, epoch |-> 0, elapsed |-> 0, result |-> FALSE]

\* the chain moves on within the epoch, or into the next epoch at which the
\* predicate is asked
PvAdvance ==
  /\ \/ /\ \E p \in PvPoints : p > pvElapsed /\ pvElapsed' = p
        /\ UNCHANGED pvEpoch
     \/ /\ \E e \in PvEpochs : e > pvEpoch
        /\ pvEpoch' = CHOOSE e \in PvEpochs :
                        e > pvEpoch /\ \A x \in PvEpochs : x > pvEpoch => e <= x
        /\ pvElapsed' = 0
  /\ pvOut' = NoPvOut
  /\ UNCHANGED << pvTracker, pvPuts, pvAccepted, consVars, cmpVars, authVars,
                  actVars, rateVars,
                  hbVars >>

\* the DHT has taken the answer of the last call
PvReturn ==
  /\ pvOut.called
  /\ pvOut' = NoPvOut
  /\ UNCHANGED << pvEpoch, pvElapsed, pvTracker, pvPuts, pvAccepted, consVars,
                  cmpVars, authVars, actVars, rateVars,
                  hbVars >>

\* the DHT asks the predicate about a GET
PvGet ==
  /\ ~pvOut.called
  /\ \E record \in PvRecords :
       LET ed == [raised |-> FALSE, epoch |-> pvEpoch, elapsed |-> pvElapsed]
           r == PredicateCall(record, "GET", ed, pvTracker)
       IN /\ pvTracker' = r.tracker
          /\ pvOut' = [called |-> TRUE, type |-> "GET", record |-> record,
                       raised |-> FALSE, epoch |-> pvEpoch,
                       elapsed |-> pvElapsed, result |-> r.result]
  /\ UNCHANGED << pvEpoch, pvElapsed, pvPuts, pvAccepted, consVars, cmpVars,
                  authVars, actVars, rateVars,
                  hbVars >>

\* the DHT asks the predicate about a PUT; the chain query may raise
PvPut ==
  /\ ~pvOut.called
  /\ pvPuts < MaxPuts
  /\ pvPuts' = pvPuts + 1
  /\ \E record \in PvRecords, raised \in BOOLEAN :
       LET ed == [raised |-> raised, epoch |-> pvEpoch, elapsed |-> pvElapsed]
           r == PredicateCall(record, "PUT", ed, pvTracker)
       IN /\ pvTracker' = r.tracker
          /\ pvOut' = [called |-> TRUE, type |-> "PUT", record |-> record,
                       raised |-> raised, epoch |-> pvEpoch,
                       elapsed |-> pvElapsed, result |-> r.result]
          /\ pvAccepted' =
               IF r.result /\ record.key.name \in KeyTypes
               THEN [pvAccepted EXCEPT
                       ![<< pvEpoch, record.key.name, record.subkey[1] >>] = @ + 1]
               ELSE pvAccepted
  /\ UNCHANGED << pvEpoch, pvElapsed, consVars, cmpVars, authVars,
                  actVars, rateVars,
                  hbVars >>

---------------------------------------------------------------------------
(* The Consensus process: _main_loop, run_activate_subnet (Phase A) and
   run_is_node_validator (Phase B) *)

\* max_errors = 3
MaxErrors == 3

\* what get_formatted_subnet_info(subnet_id) may do: answer None (not found),
\* a subnet that is not active, an active subnet, or raise
SubnetInfoAnswers == { "none", "registered", "active", "raise" }

\* what get_subnet_slot(subnet_id) may do
SlotAnswers == { "none", "slot", "raise" }

\* the chain moves on to its next epoch
ActAdvanceEpoch ==
  /\ aPc \notin { "ended", "raised", "consensus" }
  /\ aEpoch < MaxActEpoch
  /\ aEpoch' = aEpoch + 1
  /\ UNCHANGED << aPc, skip_activate_subnet, aStop, slot, aLastEpoch,
                  errors_count, subnet_active, aSeen, consVars, cmpVars,
                  authVars, predVars, rateVars,
                  hbVars >>

\* Consensus.shutdown called by the parent process: self.stop.set()
ActSetStop ==
  /\ aPc \notin { "ended", "raised", "consensus" }
  /\ ~aStop
  /\ aStop' = TRUE
  /\ UNCHANGED << aEpoch, aPc, skip_activate_subnet, slot, aLastEpoch,
                  errors_count, subnet_active, aSeen, consVars, cmpVars,
                  authVars, predVars, rateVars,
                  hbVars >>

\* run_activate_subnet up to its loop
ActEnter ==
  /\ aPc = "start"
  /\ IF skip_activate_subnet
     THEN aPc' = "done" /\ subnet_active' = TRUE
     ELSE aPc' = "loop" /\ UNCHANGED subnet_active
  /\ UNCHANGED << aEpoch, skip_activate_subnet, aStop, slot, aLastEpoch,
                  errors_count, aSeen, consVars, cmpVars, authVars, predVars, rateVars,
                  hbVars >>

\* run_activate_subnet: one pass of the loop, up to its sleep, break or raise.
\* self.shutdown() run inside the process sets self.stop and then raises at
\* self.join(3) (a process can only join its child).
ActPass ==
  /\ aPc = "loop"
  /\ IF aStop
     THEN /\ aPc' = "done"
          /\ UNCHANGED << slot, aLastEpoch, errors_count, subnet_active, aStop,
                          aSeen >>
     ELSE \E sl \in SlotAnswers, info \in SubnetInfoAnswers :
            /\ slot # None => sl = "slot"            \* no query is made
            /\ (sl = "none" \/ Some(aEpoch) = aLastEpoch) => info = "none"
            /\ IF slot = None /\ sl = "none"
               THEN \* sleep(BLOCK_SECS); continue
                    /\ aPc' = "sleep"
                    /\ UNCHANGED << slot, aLastEpoch, errors_count,
                                    subnet_active, aStop, aSeen >>
               ELSE /\ slot' = IF slot = None /\ sl = "slot" THEN Some(1)
                               ELSE slot
                    /\ IF Some(aEpoch) = aLastEpoch
                       THEN /\ aPc' = "sleep"
                            /\ UNCHANGED << aLastEpoch, errors_count,
                                            subnet_active, aStop, aSeen >>
                       ELSE IF info = "raise"
                       THEN /\ aPc' = "raised"
                            /\ UNCHANGED << aLastEpoch, errors_count,
                                            subnet_active, aStop, aSeen >>
                       ELSE IF info = "none"
                       THEN IF errors_count > MaxErrors
                            THEN /\ aStop' = TRUE
                                 /\ aPc' = "raised"
                                 /\ aSeen' = [aSeen EXCEPT
                                                !.run = @ + 1,
                                                !.shutdown = TRUE]
                                 /\ UNCHANGED << aLastEpoch, errors_count,
                                                 subnet_active >>
                            ELSE /\ errors_count' = errors_count + 1
                                 /\ aLastEpoch' = Some(aEpoch)
                                 /\ aSeen' = [aSeen EXCEPT !.run = @ + 1]
                                 /\ aPc' = "sleep"
                                 /\ UNCHANGED << subnet_active, aStop >>
                       ELSE /\ aSeen' = [aSeen EXCEPT
                                           !.run = 0,
                                           !.active = @ \/ info = "active"]
                            /\ UNCHANGED << errors_count, aStop >>
                            /\ IF info = "active"
                               THEN /\ subnet_active' = TRUE
                                    /\ aPc' = "done"
                                    /\ UNCHANGED aLastEpoch
                               ELSE /\ aLastEpoch' = Some(aEpoch)
                                    /\ aPc' = "sleep"
                                    /\ UNCHANGED subnet_active
  /\ UNCHANGED << aEpoch, skip_activate_subnet, consVars, cmpVars, authVars,
                  predVars, rateVars,
                  hbVars >>

\* run_activate_subnet: the sleep is over
ActSleep ==
  /\ aPc = "sleep"
  /\ aPc' = "loop"
  /\ UNCHANGED << aEpoch, skip_activate_subnet, aStop, slot, aLastEpoch,
                  errors_count, subnet_active, aSeen, consVars, cmpVars,
                  authVars, predVars, rateVars,
                  hbVars >>

\* _main_loop: if not await self.run_activate_subnet(): return, then
\* run_is_node_validator with its last_epoch = None
ActReturn ==
  /\ aPc = "done"
  /\ IF subnet_active
     THEN aPc' = "b_loop" /\ aLastEpoch' = None
     ELSE aPc' = "ended" /\ UNCHANGED aLastEpoch
  /\ UNCHANGED << aEpoch, skip_activate_subnet, aStop, slot, errors_count,
                  subnet_active, aSeen, consVars, cmpVars, authVars, predVars,
                  rateVars, hbVars >>

\* a list of nodes in which every node has another node's id
NodeFoundAlways(nodes) == TRUE

\* run_is_node_validator: node.subnet_node_id == self.subnet_node_id for a
\* node of the list
NodeFound(nodes) == SubnetNodeId \in nodes

\* run_is_node_validator (Phase B): one pass of the loop, up to its sleep,
\* break or raise; it returns True however the loop ends, and _main_loop goes
\* on to run_forever
ActValidatorPass ==
  /\ aPc = "b_loop"
  /\ IF aStop
     THEN aPc' = "forever" /\ UNCHANGED << aLastEpoch, aSeen >>
     ELSE \E raises \in BOOLEAN, nodes \in SUBSET NodeIds :
            IF raises
            THEN aPc' = "raised" /\ UNCHANGED << aLastEpoch, aSeen >>
            ELSE IF Some(aEpoch) = aLastEpoch
            THEN aPc' = "b_sleep" /\ UNCHANGED << aLastEpoch, aSeen >>
            ELSE IF NodeFound(nodes)
            THEN /\ aPc' = "forever"
                 /\ aSeen' = [aSeen EXCEPT !.found = SubnetNodeId \in nodes]
                 /\ UNCHANGED aLastEpoch
            ELSE /\ aPc' = "b_sleep"
                 /\ aLastEpoch' = Some(aEpoch)
                 /\ UNCHANGED aSeen
  /\ UNCHANGED << aEpoch, skip_activate_subnet, aStop, slot, errors_count,
                  subnet_active, consVars, cmpVars, authVars, predVars,
                  rateVars, hbVars >>

\* run_is_node_validator: the sleep is over
ActValidatorSleep ==
  /\ aPc = "b_sleep"
  /\ aPc' = "b_loop"
  /\ UNCHANGED << aEpoch, skip_activate_subnet, aStop, slot, aLastEpoch,
                  errors_count, subnet_active, aSeen, consVars, cmpVars,
                  authVars, predVars, rateVars, hbVars >>

\* run_forever entered (Phase C): while not self.stop.is_set() ends the loop
\* and with it _main_loop, or the loop runs and comes to run_consensus
ActForever ==
  /\ aPc = "forever"
  /\ aPc' = IF aStop THEN "ended" ELSE "consensus"
  /\ UNCHANGED << aEpoch, skip_activate_subnet, aStop, slot, aLastEpoch,
                  errors_count, subnet_active, aSeen, consVars, cmpVars,
                  authVars, predVars, rateVars, hbVars >>

---------------------------------------------------------------------------
(* RateLimitAuthorizer *)

\* ThreatLevel
Normal == 0
Suspicious == 1
Moderate == 2
High == 3
Critical == 4

\* RateLimitConfig: the windows and block durations, in seconds
ShortWindow == 1
MediumWindow == 60
LongWindow == 3600
TempBlockDuration == 300
ExtendedBlockDuration == 3600
\* _handle_threat: self._block_peer(peer_id, 86400)
CriticalBlockDuration == 86400
\* RateLimitConfig.ip_ban_violation_count
IpBanViolationCount == 10
\* _record_violation: if self.violation_counts[peer_id] >= 5
RepeatedViolations == 5

\* by how much time.time() may have moved between two calls
RlSteps == { ShortWindow, MediumWindow, TempBlockDuration, LongWindow }

\* what the wrapped SignatureAuthorizer may find: do_validate_request not
\* valid (or no peer id for the public key), validate_request false, or all
\* well
RlAuthAnswers == { "invalid", "innerFail", "ok" }

\* while requests and requests[0] < cutoff_time: requests.popleft()
RECURSIVE PopOld(_, _)
PopOld(requests, cutoff_time) ==
  IF requests # << >> /\ Head(requests) < cutoff_time
  THEN PopOld(Tail(requests), cutoff_time)
  ELSE requests

\* sum(1 for t in requests if t > since)
CountSince(requests, since) ==
  Cardinality({ i \in DOMAIN requests : requests[i] > since })

\* an hourly limit that is never reached
NeverExceededHour(long_count) == FALSE

\* _detect_threat: if long_count >= self.config.max_requests_per_hour
ExceededHour(long_count) == long_count >= MaxRequestsPerHour

\* _detect_threat: the threat level found (Normal: no threat). The thresholds
\* are ip_ban_threshold 5.0, blocking_threshold 3.0, suspicious_threshold 1.5
DetectThreat(short_count, medium_count, long_count, violations) ==
  IF short_count > MaxRequestsPerSecond * 5
     \/ violations >= IpBanViolationCount THEN Critical
  ELSE IF short_count > MaxRequestsPerSecond * 3 THEN High
  ELSE IF medium_count >= MaxRequestsPerMinute THEN Moderate
  ELSE IF ExceededHour(long_count) THEN Moderate
  ELSE IF short_count >= MaxBurst THEN Suspicious
  ELSE IF 2 * short_count > 3 * MaxRequestsPerSecond THEN Suspicious
  ELSE Normal

\* a block that is over as it begins
BlockUntilNow(now, duration) == now

\* _block_peer: unblock_time = time.time() + duration
BlockUntil(now, duration) == now + duration

\* a level that is overwritten by whatever was detected last
Overwrite(current_level, threat_level) == threat_level

\* _handle_threat: if threat_level.value > current_level.value
Escalate(current_level, threat_level) ==
  IF threat_level > current_level THEN threat_level ELSE current_level

\* a threat that is handled by doing nothing
HandleThreatNot(st, threat_level, now) == st

\* _handle_threat on st = [level, violations, blocked, banned, callback];
\* _ban_peer_ip adds the peer to ip_banned_peers and calls ip_ban_callback
HandleThreat(st, threat_level, now) ==
  LET esc == [st EXCEPT
                !.level = Escalate(@, threat_level),
                !.violations = @ + 1]
  IN CASE threat_level = Moderate ->
            [esc EXCEPT !.blocked = Some(BlockUntil(now, TempBlockDuration))]
       [] threat_level = High ->
            [esc EXCEPT !.blocked = Some(BlockUntil(now, ExtendedBlockDuration))]
       [] threat_level = Critical ->
            IF enable_ip_banning
            THEN [esc EXCEPT !.banned = TRUE, !.callback = TRUE]
            ELSE [esc EXCEPT
                    !.blocked = Some(BlockUntil(now, CriticalBlockDuration))]
       [] OTHER -> esc

\* _record_violation
RecordViolation(st, now) ==
  LET counted == [st EXCEPT !.violations = @ + 1]
  IN IF counted.violations >= RepeatedViolations
     THEN HandleThreat(counted, Suspicious, now)
     ELSE counted

\* _check_rate_limit: [allowed, threat, requests, st]; threat is the level
\* _detect_threat found, or -1 when it was not asked
CheckRateLimit(requests, st, now) ==
  IF st.banned
  THEN [allowed |-> FALSE, threat |-> -1, requests |-> requests, st |-> st]
  ELSE IF st.blocked # None /\ now < st.blocked[1]
  THEN [allowed |-> FALSE, threat |-> -1, requests |-> requests, st |-> st]
  ELSE
    LET open == [st EXCEPT !.blocked = None]
        kept == PopOld(requests, now - LongWindow)
        threat == DetectThreat(CountSince(kept, now - ShortWindow),
                               CountSince(kept, now - MediumWindow),
                               Len(kept), st.violations)
    IN IF threat # Normal
       THEN [allowed |-> FALSE, threat |-> threat, requests |-> kept,
             st |-> HandleThreat(open, threat, now)]
       ELSE [allowed |-> TRUE, threat |-> threat,
             requests |-> Append(kept, now), st |-> open]

NoRlOut == [called |-> FALSE, time |-> 0, auth |-> "ok", threat |-> -1,
            blocked |-> FALSE, result |-> FALSE, callback |-> FALSE]

\* time.time() moves on
RlTick ==
  /\ rlTicks < MaxRlTicks
  /\ rlTicks' = rlTicks + 1
  /\ \E d \in RlSteps : rlNow' = rlNow + d
  /\ rlOut' = NoRlOut
  /\ rlSent' = 0
  /\ UNCHANGED << peer_requests, blocked_peers, violation_counts,
                  peer_threat_levels, ip_banned_peers, rlModerateAt,
                  enable_ip_banning, consVars, cmpVars, authVars, predVars,
                  actVars,
                  hbVars >>

\* RateLimitAuthorizer.validate_request
RlValidateRequest ==
  /\ violation_counts < MaxViolations
  /\ \E auth \in RlAuthAnswers :
       LET st == [level |-> peer_threat_levels, violations |-> violation_counts,
                  blocked |-> blocked_peers, banned |-> ip_banned_peers,
                  callback |-> FALSE]
           asked == auth # "invalid"
           unblocked == ~ip_banned_peers
                        /\ (blocked_peers = None \/ ~(rlNow < blocked_peers[1]))
           atLimit ==
             \/ CountSince(peer_requests, rlNow - MediumWindow)
                  >= MaxRequestsPerMinute
             \/ Cardinality({ i \in DOMAIN peer_requests :
                                peer_requests[i] >= rlNow - LongWindow })
                  >= MaxRequestsPerHour
       IN \E chk \in { CheckRateLimit(peer_requests, st, rlNow) } :
          \E after \in { IF ~asked THEN st
                          ELSE IF ~chk.allowed \/ auth = "innerFail"
                          THEN RecordViolation(chk.st, rlNow)
                          ELSE chk.st } :
            /\ peer_requests' = IF asked THEN chk.requests ELSE peer_requests
            /\ peer_threat_levels' = after.level
            /\ violation_counts' = after.violations
            /\ blocked_peers' = after.blocked
            /\ ip_banned_peers' = after.banned
            /\ rlModerateAt' = IF asked /\ unblocked /\ atLimit
                               THEN Some(rlNow) ELSE rlModerateAt
            /\ rlOut' = [called |-> TRUE, time |-> rlNow, auth |-> auth,
                         threat |-> IF asked THEN chk.threat ELSE -1,
                         blocked |-> after.blocked # None \/ after.banned,
                         result |-> asked /\ chk.allowed /\ auth = "ok",
                         callback |-> after.callback]
            /\ rlSent' = IF asked THEN rlSent + 1 ELSE rlSent
  /\ UNCHANGED << rlNow, rlTicks, enable_ip_banning, consVars, cmpVars,
                  authVars, predVars, actVars,
                  hbVars >>

---------------------------------------------------------------------------
(* ModuleHeartbeatThread: run and announce, as two threads *)

\* run: if self.server_info.state != ServerState.OFFLINE: ping, else no pings
HbPing ==
  /\ hbPc = "top"
  /\ next_pings' = IF server_state # "OFFLINE" THEN "pings" ELSE "none"
  /\ hbPc' = "declare"
  /\ UNCHANGED << hbCaller, server_state, trigger, hbStoring, hbBeats, hbAt,
                  hbAfter, hbOnline, consVars, cmpVars, authVars, predVars, actVars,
                  rateVars >>

\* declare_node hands server_info to the DHT process: the record holds the
\* state server_info has now
HbDeclare ==
  /\ hbPc = "declare"
  /\ hbStoring' = Some(server_state)
  /\ hbPc' = "store"
  /\ UNCHANGED << hbCaller, server_state, trigger, next_pings, hbBeats, hbAt,
                  hbAfter, hbOnline, consVars, cmpVars, authVars, predVars, actVars,
                  rateVars >>

\* declare_node returns: the record is stored
HbStored ==
  /\ hbPc = "store"
  /\ hbAfter' = IF hbAt # "none" THEN Append(hbAfter, hbStoring[1])
                ELSE hbAfter
  /\ hbOnline' = IF hbOnline = "pending" /\ hbStoring[1] # "JOINING"
                 THEN "published" ELSE hbOnline
  /\ hbStoring' = None
  /\ hbPc' = "check"
  /\ UNCHANGED << hbCaller, server_state, trigger, next_pings, hbBeats, hbAt,
                  consVars, cmpVars, authVars, predVars, actVars, rateVars >>

\* run: if self.server_info.state == ServerState.OFFLINE: break
HbCheck ==
  /\ hbPc = "check"
  /\ hbPc' = IF server_state = "OFFLINE" THEN "stopped" ELSE "wait"
  /\ UNCHANGED << hbCaller, server_state, trigger, next_pings, hbStoring,
                  hbBeats, hbAt, hbAfter, hbOnline, consVars, cmpVars, authVars,
                  predVars, actVars, rateVars >>

\* run: self.trigger.wait(max(delay, 0)) returns, the event set or the
\* update period over
HbWait ==
  /\ hbPc = "wait"
  /\ trigger \/ hbBeats < MaxBeats
  /\ hbBeats' = IF trigger THEN hbBeats ELSE hbBeats + 1
  /\ hbOnline' = IF hbOnline = "pending" /\ ~trigger THEN "slept" ELSE hbOnline
  /\ hbPc' = "clear"
  /\ UNCHANGED << hbCaller, server_state, trigger, next_pings, hbStoring,
                  hbAt, hbAfter, consVars, cmpVars, authVars, predVars,
                  actVars, rateVars >>

\* run: self.trigger.clear(), and the next iteration
HbClear ==
  /\ hbPc = "clear"
  /\ trigger' = FALSE
  /\ hbPc' = "top"
  /\ UNCHANGED << hbCaller, server_state, next_pings, hbStoring, hbBeats,
                  hbAt, hbAfter, hbOnline, consVars, cmpVars, authVars, predVars,
                  actVars, rateVars >>

\* Server.run and Server.shutdown enter announce:
\* self.server_info.state = state
HbAnnounce ==
  /\ \/ /\ hbCaller = "created"
        /\ server_state' = "ONLINE"
        /\ hbCaller' = "online"
        /\ UNCHANGED hbAt
     \/ /\ hbCaller \in { "created", "running" }
        /\ server_state' = "OFFLINE"
        /\ hbCaller' = "offline"
        /\ hbAt' = hbPc
  /\ UNCHANGED << hbPc, trigger, next_pings, hbStoring, hbBeats, hbAfter, hbOnline,
                  consVars, cmpVars, authVars, predVars, actVars, rateVars >>

\* announce: self.trigger.set()
HbTrigger ==
  /\ hbCaller \in { "online", "offline" }
  /\ trigger' = TRUE
  /\ hbCaller' = IF hbCaller = "online" THEN "running" ELSE "join"
  /\ hbOnline' = IF hbCaller = "online" THEN "pending" ELSE hbOnline
  /\ UNCHANGED << hbPc, server_state, next_pings, hbStoring, hbBeats, hbAt,
                  hbAfter, consVars, cmpVars, authVars, predVars, actVars,
                  rateVars >>

\* announce: if state == ServerState.OFFLINE: self.join()
HbJoin ==
  /\ hbCaller = "join"
  /\ hbPc = "stopped"
  /\ hbCaller' = "joined"
  /\ UNCHANGED << hbPc, server_state, trigger, next_pings, hbStoring, hbBeats,
                  hbAt, hbAfter, hbOnline, consVars, cmpVars, authVars, predVars,
                  actVars, rateVars >>

---------------------------------------------------------------------------
(* Initial states and specifications *)

ConsInit ==
  /\ chEpoch = 0
  /\ chElapsed = 0
  /\ faults = 0
  /\ variant \in { "mesh", "app" }
  /\ isMock \in BOOLEAN
  /\ isMock => variant = "app"
  /\ stop = FALSE
  /\ pc = "rf_top"
  /\ started = FALSE
  /\ last_epoch = None
  /\ cur = 0
  /\ scores = << >>
  /\ validator = NoneValidator
  /\ consensus_data = None
  /\ is_voa = FALSE
  /\ previous_epoch_data = None
  /\ calls = [e \in Epochs |-> NoCalls]
  /\ obs = NoObs
  /\ mismatched = {}
  /\ ran = "no"

\* the consensus process about to enter run_activate_subnet
ActInit ==
  /\ aEpoch = 0
  /\ aPc = "start"
  /\ skip_activate_subnet \in BOOLEAN
  /\ aStop = FALSE
  /\ slot = None
  /\ aLastEpoch = None
  /\ errors_count = 0
  /\ subnet_active = FALSE
  /\ aSeen = [run |-> 0, shutdown |-> FALSE, active |-> FALSE,
               found |-> FALSE]

\* run_activate_subnet not under study
ActIdle == ActInit /\ ~skip_activate_subnet

\* a fresh RateLimitAuthorizer, with or without IP banning
RateInit ==
  /\ enable_ip_banning \in BOOLEAN
  /\ rlSent = 0
  /\ rlNow = 0
  /\ rlTicks = 0
  /\ peer_requests = << >>
  /\ blocked_peers = None
  /\ violation_counts = 0
  /\ peer_threat_levels = Normal
  /\ ip_banned_peers = FALSE
  /\ rlModerateAt = None
  /\ rlOut = NoRlOut

\* Server.__init__: server_info.state = ServerState.JOINING, the thread
\* created and started
HbInit ==
  /\ hbPc = "top"
  /\ hbCaller = "created"
  /\ server_state = "JOINING"
  /\ trigger = FALSE
  /\ next_pings = "unset"
  /\ hbStoring = None
  /\ hbBeats = 0
  /\ hbAt = "none"
  /\ hbAfter = << >>
  /\ hbOnline = "none"

\* the rate limiter not under study
RateIdle == RateInit /\ ~enable_ip_banning

\* the consensus loop not under study
ConsIdle == ConsInit /\ variant = "mesh"

\* compare_consensus_data not under study
CmpIdle ==
  /\ cmpPrev = None
  /\ cmpIn = [called |-> FALSE, my |-> << >>, val |-> << >>, prev |-> None,
              lookup |-> [raised |-> FALSE, data |-> None]]
  /\ cmpOut = NoCmpOut

\* the inputs of the call are drawn
CmpInit ==
  /\ cmpPrev \in CmpPrevs
  /\ \E my \in CmpLists, val \in CmpLists,
        lookup \in PreviousLookups(CmpChainLists) :
       cmpIn = [called |-> FALSE, my |-> my, val |-> val, prev |-> cmpPrev,
                lookup |-> lookup]
  /\ cmpOut = NoCmpOut

AuthInit ==
  /\ auNow = 0
  /\ auNonces = [n \in Nonces |-> 0]
  /\ auAccepted = [n \in Nonces |-> None]
  /\ auOut = NoAuOut

\* a fresh predicate, or one that has so far accepted n "node" PUTs of peer 1
\* in the running epoch and nothing else
PredInit ==
  /\ pvEpoch = 0
  /\ pvElapsed = 0
  /\ \E n \in { 0, NodeLimit - 1 } :
       /\ pvTracker = IF n = 0 THEN << >>
                      ELSE (0 :> [NoStores EXCEPT ![<< "node", 1 >>] = n])
       /\ pvAccepted = [x \in PvEpochs \X KeyTypes \X Peers |->
                          IF x = << 0, "node", 1 >> THEN n ELSE 0]
  /\ pvPuts = 0
  /\ pvOut = NoPvOut

\* the predicate not under study
PredIdle == PredInit /\ pvTracker = << >>

Init == ConsInit /\ CmpIdle /\ AuthInit /\ PredIdle /\ ActIdle /\ RateIdle
  /\ HbInit

Next ==
  \/ AdvanceBlock
  \/ SetStop
  \/ RFStop
  \/ RFReadEpoch
  \/ ChainReadRaises
  \/ RFAfter
  \/ RFSleep
  \/ RFBackoff
  \/ RCStart
  \/ RCResolve
  \/ RCCheckProposed
  \/ RCPropose
  \/ RCAttLoop
  \/ RCAttSleep
  \/ RCCompareMesh
  \/ RCCompareApp
  \/ RCAttest

Spec == Init /\ [][Next]_vars

InitCompare == ConsIdle /\ CmpInit /\ AuthInit /\ PredIdle /\ ActIdle /\ RateIdle
  /\ HbInit

NextCompare == CompareCall

SpecCompare == InitCompare /\ [][NextCompare]_vars

InitAuth == ConsIdle /\ CmpIdle /\ AuthInit /\ PredIdle /\ ActIdle /\ RateIdle
  /\ HbInit

NextAuth ==
  \/ AuTick
  \/ AuthValidateRequest
  \/ AuthValidateResponse

SpecAuth == InitAuth /\ [][NextAuth]_vars

InitPredicate == ConsIdle /\ CmpIdle /\ AuthInit /\ PredInit /\ ActIdle /\ RateIdle
  /\ HbInit

NextPredicate ==
  \/ PvAdvance
  \/ PvReturn
  \/ PvGet
  \/ PvPut

SpecPredicate == InitPredicate /\ [][NextPredicate]_vars

InitActivate ==
  ConsIdle /\ CmpIdle /\ AuthInit /\ PredIdle /\ ActInit /\ RateIdle
  /\ HbInit

NextActivate ==
  \/ ActAdvanceEpoch
  \/ ActSetStop
  \/ ActEnter
  \/ ActPass
  \/ ActSleep
  \/ ActReturn
  \/ ActValidatorPass
  \/ ActValidatorSleep
  \/ ActForever

SpecActivate == InitActivate /\ [][NextActivate]_vars

InitRate ==
  ConsIdle /\ CmpIdle /\ AuthInit /\ PredIdle /\ ActIdle /\ RateInit
  /\ HbInit

NextRate ==
  \/ RlTick
  \/ RlValidateRequest

SpecRate == InitRate /\ [][NextRate]_vars

InitHeartbeat ==
  ConsIdle /\ CmpIdle /\ AuthInit /\ PredIdle /\ ActIdle /\ RateIdle
  /\ HbInit

NextHeartbeat ==
  \/ HbPing
  \/ HbDeclare
  \/ HbStored
  \/ HbCheck
  \/ HbWait
  \/ HbClear
  \/ HbAnnounce
  \/ HbTrigger
  \/ HbJoin

SpecHeartbeat == InitHeartbeat /\ [][NextHeartbeat]_vars

---------------------------------------------------------------------------
(* Properties *)

\* C1 (as the code has it): for every epoch at most one propose_attestation
\* call and at most one attest call return a successful receipt, and no such
\* call is issued for an epoch after one of its kind has succeeded; a call is
\* repeated only after a failed receipt or a raised error.
C1_AtMostOneSuccessfulWritePerEpoch ==
  \A e \in Epochs :
    /\ calls[e].proposeOk <= 1
    /\ calls[e].attestOk <= 1
    /\ ~calls[e].afterOk
    /\ calls[e].propose <= calls[e].proposeOk + MaxFaults
    /\ calls[e].attest <= calls[e].attestOk + MaxFaults

\* C1, case reached: attest was repeated after a failure and then succeeded
C1_Witness ==
  \E e \in Epochs : calls[e].attest = 2 /\ calls[e].attestOk = 1

\* C1 as stated: for every epoch the node issues at most one
\* propose_attestation call and at most one attest call, whatever the chain
\* returns.
C1_AtMostOneCallPerEpoch ==
  \A e \in Epochs : calls[e].propose <= 1 /\ calls[e].attest <= 1

\* C4: a run_consensus invocation whose comparison ended in a mismatch has
\* issued neither attest nor propose_attestation.
C4_MismatchMeansNoWrite ==
  obs.compared = "mismatch" => (obs.attests = 0 /\ obs.proposes = 0)

\* the list of {subnet_node_id, score} dicts of a score list
ScoreDicts(sc) ==
  [i \in DOMAIN sc |-> ScoreEntry(sc[i].subnet_node_id, sc[i].score)]

\* C9: run_consensus as the elected validator never attests; if consensus data
\* for the epoch was found on chain it issues no chain write; if none was found
\* it issues exactly one propose_attestation (once the branch is through),
\* carrying the locally computed scores, empty or not.
C9_ValidatorProposesOnce ==
  obs.role = "validator" =>
    /\ obs.attests = 0
    /\ obs.proposes <= 1
    /\ obs.lookup = "nonnull" => obs.proposes = 0
    /\ (obs.lookup = "null" /\ pc \in { "rf_after", "rf_backoff" })
         => obs.proposes = 1
    /\ obs.proposes = 1 => obs.sent = Some(ScoreDicts(scores))

\* C9, case reached: the validator has proposed an empty score list
C9_Witness ==
  /\ pc = "rf_after"
  /\ obs.role = "validator"
  /\ obs.lookup = "null"
  /\ obs.proposes = 1
  /\ scores = << >>
  /\ obs.sent = Some(<< >>)

\* C10: a run_consensus invocation acting as attestor whose consensus data
\* lists the node's own subnet_node_id among the attests issues no attest.
C10_NoAttestWhenAlreadyAttested ==
  (/\ obs.role = "attestor"
   /\ consensus_data # None
   /\ SubnetNodeId \in consensus_data[1].attests)
    => obs.attests = 0

\* C10, case reached: the comparison matched, the node found itself among the
\* attests and left the loop
C10_Witness ==
  /\ pc = "rf_after"
  /\ obs.role = "attestor"
  /\ obs.compared = "match"
  /\ consensus_data # None
  /\ SubnetNodeId \in consensus_data[1].attests
  /\ obs.attests = 0

\* a score list as a set of (subnet_node_id, score) pairs
PairSet(data) ==
  { << data[i].subnet_node_id, data[i].score >> : i \in DOMAIN data }

PairLess(a, b) == a[1] < b[1] \/ (a[1] = b[1] /\ a[2] < b[2])

\* the list holding the pairs of S once each, in ascending order
RECURSIVE CanonicalList(_)
CanonicalList(S) ==
  IF S = {} THEN << >>
  ELSE LET m == CHOOSE x \in S : \A y \in S : x = y \/ PairLess(x, y)
       IN << ScoreEntry(m[1], m[2]) >> \o CanonicalList(S \ { m })

C8_FallbackOnlyIfSuperMajority ==
  (/\ cmpIn.called
   /\ ~cmpOut.raised
   /\ PairSet(cmpIn.my) # PairSet(cmpIn.val)
   /\ cmpOut.success)
    => /\ cmpIn.lookup.data # None
       /\ cmpIn.lookup.data[1].subnet_nodes > 0
       /\ ~RatioBelowSuperMajority(cmpIn.lookup.data[1])

\* C2: a request that validate_request accepted is rejected when it is
\* presented again within 3 x 60 s of that acceptance.
C2_ReplayRejected ==
  (/\ auOut.kind = "request"
   /\ auOut.replayAge # None
   /\ auOut.replayAge[1] <= MaxClientServicerTimeDiff * NonceTtlFactor)
    => ~auOut.result

\* C3: validate_request and validate_response return True only if the
\* proof_of_stake lookup returned true.
C3_AcceptedOnlyIfStaked ==
  (auOut.kind # "none" /\ auOut.result) => auOut.pos = "true"

\* an otherwise admissible PUT of a commit key of the current epoch: valid
\* subkey, expiration within the cap, chain query answered, quota unused
AdmissibleCommitPut ==
  /\ pvOut.called
  /\ pvOut.type = "PUT"
  /\ ~pvOut.raised
  /\ pvOut.record.key = [name |-> "commit", epoch |-> pvOut.epoch]
  /\ pvOut.record.subkey # None
  /\ pvOut.record.expOff <= MaxCommitTime
  /\ pvPuts = 1

\* C5: an otherwise admissible PUT under commit_epoch_E of the current epoch
\* E is accepted if and only if 0.15 < percent_complete <= 0.50.
C5_CommitWindow ==
  AdmissibleCommitPut =>
    (pvOut.result <=> (pvOut.elapsed * 100 > 15 * EpochLength
                       /\ pvOut.elapsed * 100 <= 50 * EpochLength))

\* C6 (as the code has it): every GET whose record carries its owner's public
\* key as subkey is accepted, whatever the key, the expiration and the phase
\* of the epoch; a GET whose subkey yields no peer id is rejected.
C6_GetAcceptedWithOwner ==
  (pvOut.called /\ pvOut.type = "GET") =>
    (pvOut.result <=> pvOut.record.subkey # None)

\* C6, case reached: a GET of a key outside the key table, late in the epoch,
\* was accepted
C6_Witness ==
  /\ pvOut.called
  /\ pvOut.type = "GET"
  /\ pvOut.record.key.name = "other"
  /\ pvOut.record.expOff > MaxCommitTime
  /\ pvOut.elapsed * 100 > RevealDeadlinePct * EpochLength
  /\ pvOut.result

\* C6 as stated: every GET is accepted.
C6_EveryGetAccepted ==
  (pvOut.called /\ pvOut.type = "GET") => pvOut.result

\* C11: in the app revision an attestor calls attest only directly after a read
\* that showed the chain still in the epoch being run and at most 25 percent
\* complete; and an epoch whose validator data was still missing when a read
\* showed it past 25 percent gets no attest at all
C11_AttestOnlyInFirstQuarter ==
  variant = "app" =>
    /\ ~obs.unchecked
    /\ \A e \in Epochs : calls[e].lateSkip => calls[e].attest = 0

\* an attest was issued in one epoch after an in-window read, and another epoch
\* was skipped because the data was still missing past the first quarter
C11_Witness ==
  /\ variant = "app"
  /\ \E e \in Epochs : calls[e].attest > 0 /\ ~calls[e].lateSkip
  /\ \E e \in Epochs : calls[e].lateSkip /\ calls[e].attest = 0

\* C12: in the app revision no attest is issued on a submission that carries
\* prioritize_queue_node_id or remove_queue_node_id, whatever the comparison
\* of the scores would give
C12_NoAttestOnQueueSubmission ==
  variant = "app" => ~obs.queuedAttest

\* an attestor run ended on a submission with a queue node id whose scores
\* match the node's own, read inside the attest window, with no attest issued
C12_Witness ==
  /\ variant = "app"
  /\ pc = "rf_after"
  /\ obs.role = "attestor"
  /\ obs.window = "in"
  /\ consensus_data # None
  /\ consensus_data[1].queue
  /\ AppCompareConsensusData(scores, consensus_data[1].data)
  /\ SubnetNodeId \notin consensus_data[1].attests
  /\ obs.attests = 0

\* C13: run_consensus stops waiting for the validator of its epoch only when
\* the chain named one, the epoch has advanced or stop is set: a null answer
\* in the running epoch is followed by another poll
C13_PollsWhileNull ==
  obs.waitEnd # "null"

\* C14: in run_activate_subnet the process calls shutdown exactly when
\* get_formatted_subnet_info has just answered not-found for the fourth epoch in
\* a row (more than max_errors = 3 consecutive epochs)
C14_ShutdownOnFourthNotFound ==
  aSeen.shutdown <=> aSeen.run > MaxErrors

\* C15: within one epoch the predicate accepts from one peer at most 1 commit
\* PUT, at most 1 reveal PUT and at most 100 "node" PUTs; a further PUT of
\* that key type by that peer in that epoch is rejected
C15_PerPeerEpochQuota ==
  \A e \in PvEpochs, p \in Peers :
    /\ pvAccepted[<< e, "commit", p >>] <= 1
    /\ pvAccepted[<< e, "reveal", p >>] <= 1
    /\ pvAccepted[<< e, "node", p >>] <= 100

\* a "node" PUT of a peer with 100 accepted "node" PUTs in the epoch, with an
\* expiration inside the cap, was rejected
C15_Witness ==
  /\ pvOut.called
  /\ pvOut.type = "PUT"
  /\ ~pvOut.raised
  /\ pvOut.record.key.name = "node"
  /\ pvOut.record.subkey # None
  /\ pvOut.record.expOff * 10 <= 11 * BlockSecs * EpochLength
  /\ pvAccepted[<< pvOut.epoch, "node", pvOut.record.subkey[1] >>] = 100
  /\ ~pvOut.result

\* the expiration of the record is inside the cap of its key: 1.1 epoch
\* lengths for "node", 2 epoch lengths for commit and reveal keys
WithinExpirationCap(record) ==
  IF record.key.name = "node"
  THEN record.expOff * 10 <= 11 * BlockSecs * EpochLength
  ELSE record.expOff <= 2 * BlockSecs * EpochLength

\* C16: every PUT the predicate accepts has expiration_time <= now + cap,
\* the cap being 1.1 epoch lengths for "node" and 2 epoch lengths for commit
\* and reveal keys; a PUT with a larger expiration_time is rejected
C16_ExpirationCap ==
  (pvOut.called /\ pvOut.type = "PUT" /\ pvOut.result) =>
    WithinExpirationCap(pvOut.record)

\* a "node" PUT expiring exactly 1.1 epoch lengths from now was accepted
C16_Witness ==
  /\ pvOut.called
  /\ pvOut.type = "PUT"
  /\ pvOut.record.key.name = "node"
  /\ pvOut.record.expOff * 10 = 11 * BlockSecs * EpochLength
  /\ pvOut.result

\* a PUT whose only possible defect is the phase of the epoch: its key is
\* `name`_epoch_E of the current epoch E, its subkey names its owner, the
\* chain answered, the expiration is within 2 epoch lengths and the peer has
\* not stored anything before
AdmissiblePut(name) ==
  /\ pvOut.called
  /\ pvOut.type = "PUT"
  /\ ~pvOut.raised
  /\ pvOut.record.key = [name |-> name, epoch |-> pvOut.epoch]
  /\ pvOut.record.subkey # None
  /\ pvOut.record.expOff <= 2 * BlockSecs * EpochLength
  /\ pvPuts = 1

\* C17: an otherwise admissible PUT under reveal_epoch_E of the current epoch
\* E is accepted if and only if 0.50 < percent_complete <= 0.60
C17_RevealWindow ==
  AdmissiblePut("reveal") =>
    (pvOut.result <=> (pvOut.elapsed * 100 > 50 * EpochLength
                       /\ pvOut.elapsed * 100 <= 60 * EpochLength))

\* a reveal PUT was accepted at exactly 0.60 of the epoch
C17_Witness ==
  /\ AdmissiblePut("reveal")
  /\ pvOut.elapsed * 100 = 60 * EpochLength
  /\ pvOut.result

\* C18: an otherwise admissible PUT under consensus_epoch_E of the current
\* epoch E is accepted while percent_complete <= 0.15 and rejected later
C18_ConsensusWindow ==
  AdmissiblePut("consensus") =>
    (pvOut.result <=> pvOut.elapsed * 100 <= 15 * EpochLength)

\* C19: a request whose check finds only the SUSPICIOUS level is logged only:
\* the peer is not blocked and the request, its signatures being in order, is
\* accepted
C19_SuspiciousIsLogOnly ==
  (rlOut.called /\ rlOut.threat = Suspicious /\ rlOut.auth = "ok") =>
    (rlOut.result /\ ~rlOut.blocked)

\* C20: from the arrival of a request of an unblocked peer whose recorded
\* requests number max_requests_per_minute or more in the last 60 s, or
\* max_requests_per_hour or more in the last 3600 s, every request of the peer
\* is rejected until temp_block_duration has elapsed
C20_TempBlockOnSustainedRate ==
  (rlOut.called /\ rlModerateAt # None
     /\ rlOut.time < rlModerateAt[1] + TempBlockDuration) => ~rlOut.result

\* a request with valid signatures was rejected 60 s into a block that the
\* per-minute limit had set, when the last minute held no request any more
C20_Witness ==
  /\ rlOut.called
  /\ rlOut.auth = "ok"
  /\ rlModerateAt # None
  /\ rlOut.time = rlModerateAt[1] + MediumWindow
  /\ peer_threat_levels = Moderate
  /\ CountSince(peer_requests, rlOut.time - MediumWindow) = 0
  /\ Len(peer_requests) < MaxRequestsPerHour
  /\ ~rlOut.result

\* C21: once more than max_requests_per_second * blocking_threshold requests
\* of a peer have reached the rate limiter within one second, the peer is at
\* HIGH or above and blocked for extended_block_duration or longer
C21_HighOnFlood ==
  rlSent > MaxRequestsPerSecond * 3 =>
    /\ peer_threat_levels >= High
    /\ \/ ip_banned_peers
       \/ /\ blocked_peers # None
          /\ blocked_peers[1] >= rlNow + ExtendedBlockDuration

\* C22: a request of an unblocked peer that arrives when the peer's violation
\* count is ip_ban_violation_count or more, or its recorded requests of the
\* last second number more than max_requests_per_second * ip_ban_threshold,
\* gets the peer IP-banned with the callback called if IP banning is enabled
\* and a callback given, and blocked for 86400 s without a ban otherwise
C22_CriticalBansOrBlocksADay ==
  [][ ( /\ rlOut'.called
        /\ rlOut'.auth # "invalid"
        /\ ~ip_banned_peers
        /\ (blocked_peers = None \/ blocked_peers[1] <= rlNow)
        /\ \/ violation_counts >= IpBanViolationCount
           \/ Cardinality({ i \in DOMAIN peer_requests :
                              peer_requests[i] > rlNow - ShortWindow })
                > MaxRequestsPerSecond * 5 )
      => IF enable_ip_banning
         THEN ip_banned_peers' /\ rlOut'.callback
         ELSE /\ blocked_peers' = Some(rlNow + 86400)
              /\ ~ip_banned_peers'
              /\ ~rlOut'.callback ]_vars

\* a peer with ten violations or more was IP-banned through the callback
C22_Witness ==
  /\ rlOut.called
  /\ rlOut.callback
  /\ enable_ip_banning
  /\ ip_banned_peers
  /\ peer_threat_levels = Critical
  /\ violation_counts > IpBanViolationCount

\* C23: while a block on the peer is active, no step lowers the peer's
\* recorded threat level
C23_LevelKeptWhileBlocked ==
  [][ (blocked_peers # None /\ rlNow < blocked_peers[1])
      => peer_threat_levels' >= peer_threat_levels ]_vars

\* a request rejected during a MODERATE block took the peer to its fifth
\* violation or beyond, which handles a SUSPICIOUS threat, and the level stayed
C23_Witness ==
  /\ rlOut.called
  /\ rlOut.auth # "invalid"
  /\ rlOut.threat = -1
  /\ blocked_peers # None
  /\ rlOut.time < blocked_peers[1]
  /\ violation_counts > RepeatedViolations
  /\ peer_threat_levels = Moderate

\* C24: every validate_request call that drops the request because of its
\* signature, nonce or timestamp raises the peer's violation count
C24_AuthFailureCounted ==
  [][ (rlOut'.called /\ rlOut'.auth # "ok")
      => violation_counts' > violation_counts ]_vars

\* C25: when the heartbeat thread has stopped, exactly one heartbeat was
\* published since announce(OFFLINE) was called, and it carries OFFLINE
C25_OneOfflineHeartbeat ==
  hbPc = "stopped" => hbAfter = << "OFFLINE" >>

\* where the consensus loop can be once self.stop is set and it sleeps, waits
\* or tests the event, and how many of its steps are at most left from there
StopRank(p) ==
  CASE p = "rc_att_sleep" -> 5
    [] p = "rc_att_loop" -> 4
    [] p = "rc_resolve" -> 4
    [] p = "rf_after" -> 3
    [] p = "rf_sleep" -> 2
    [] p = "rf_backoff" -> 2
    [] p = "rf_top" -> 1
    [] p = "exited" -> 0
    [] OTHER -> -1

\* the same for run_activate_subnet, run_is_node_validator and the entry of
\* run_forever
ActStopRank(p) ==
  CASE p = "sleep" -> 5
    [] p = "loop" -> 4
    [] p = "done" -> 3
    [] p = "b_sleep" -> 3
    [] p = "b_loop" -> 2
    [] p = "forever" -> 1
    [] p = "ended" -> 0
    [] OTHER -> -1

C27_RaisingRpcNeverEndsTheProcess ==
  ~(aPc = "raised" /\ ~aSeen.shutdown)

\* C28 (as the code has it): run_consensus is invoked for epochs that never
\* decrease, an epoch is run again only in the mesh revision (whose
\* last_epoch is set once run_consensus has returned), and no chain write is
\* made for an epoch later than that of the latest invocation, so that every
\* write made for an epoch precedes every write made for a later one
C28_EpochsNeverDecrease ==
  /\ ran = "again" => variant = "mesh"
  /\ cur <= chEpoch
  /\ \A e \in Epochs :
       e > cur => calls[e].propose = 0 /\ calls[e].attest = 0

\* run_consensus was run again for its epoch after propose_attestation had
\* raised, and proposed a second time, with success
C28_Witness ==
  /\ ran = "again"
  /\ calls[cur].propose = 2
  /\ calls[cur].proposeOk = 1

\* C28 as stated: run_consensus is never invoked twice for the same epoch
C28_NeverTwiceForAnEpoch ==
  ran # "again"

\* C29: run_forever comes to run_consensus only after run_is_node_validator
\* saw the node's own id in the list of nodes of class Idle or above, and
\* run_is_node_validator is entered only after the subnet was seen Active,
\* unless skip_activate_subnet is set
C29_ConsensusOnlyAfterBothPhases ==
  /\ aPc = "consensus" => aSeen.found
  /\ aPc \in { "b_loop", "b_sleep", "forever", "consensus" } =>
       (skip_activate_subnet \/ aSeen.active)

\* run_forever came to run_consensus after the subnet was seen Active and,
\* at least two epochs on, the node's own id was seen listed
C29_Witness ==
  /\ aPc = "consensus"
  /\ ~skip_activate_subnet
  /\ aSeen.active
  /\ aSeen.found
  /\ aEpoch >= 2
  /\ aLastEpoch # None

\* C30: the list get_scores returned to run_consensus is in ascending order of
\* subnet_node_id
C30_ScoresAscendByNodeId ==
  \A i, j \in DOMAIN scores :
    i < j => scores[i].subnet_node_id < scores[j].subnet_node_id

\* C31: validate_request rejects a request whose auth.time differs from the
\* clock by more than 60 s, and accepts one that differs by exactly 60 s if
\* nothing else speaks against it
C31_SkewLimit ==
  auOut.kind = "request" =>
    /\ auOut.skew > 60 => ~auOut.result
    /\ (auOut.skew = 60 /\ auOut.clean) => auOut.result

\* a request stamped 60 s ahead of the clock was accepted
C31_Witness ==
  /\ auOut.kind = "request"
  /\ auOut.skew = 60
  /\ auOut.clean
  /\ auOut.result
  /\ auNow > 0


\* C32: after the predicate has evaluated a PUT that named its peer and for
\* which the chain answered the epoch query with epoch E, the quota tracker
\* holds no counter for an epoch earlier than E - MAX_EPOCH_HISTORY
C32_HistoryAfterEpochRead ==
  (pvOut.called /\ pvOut.type = "PUT" /\ pvOut.record.subkey # None
     /\ ~pvOut.raised) =>
    \A e \in DOMAIN pvTracker : e >= pvOut.epoch - MaxEpochHistory

\* a PUT a history after epoch PvMaxEpoch: the counters of epoch 0 are gone,
\* those of epoch E - MAX_EPOCH_HISTORY are kept
C32_Witness ==
  /\ pvOut.called /\ pvOut.type = "PUT" /\ pvOut.record.subkey # None
  /\ ~pvOut.raised
  /\ pvOut.epoch = PvMaxEpoch + MaxEpochHistory
  /\ pvAccepted[<< 0, "node", 1 >>] > 0
  /\ 0 \notin DOMAIN pvTracker
  /\ pvOut.epoch - MaxEpochHistory \in DOMAIN pvTracker

\* C32 as stated: after any PUT at epoch E no counter for an epoch earlier
\* than E - MAX_EPOCH_HISTORY remains
C32_HistoryAfterAnyPut ==
  (pvOut.called /\ pvOut.type = "PUT") =>
    \A e \in DOMAIN pvTracker : e >= pvOut.epoch - MaxEpochHistory


\* C36: a PUT whose key is the commit or reveal key of an epoch other than the
\* chain's current one, or a key outside the key table, is rejected at every
\* point of the epoch
C36_ForeignKeyRejected ==
  (/\ pvOut.called /\ pvOut.type = "PUT"
   /\ \/ pvOut.record.key.name \in { "other", "consensus" }
      \/ /\ pvOut.record.key.name \in { "commit", "reveal" }
         /\ pvOut.record.key.epoch # pvOut.epoch)
    => ~pvOut.result

\* the commit key of the next epoch, PUT inside the commit window by a peer
\* with quota left and an expiration under the cap
C36_Witness ==
  /\ pvOut.called /\ pvOut.type = "PUT" /\ ~pvOut.raised
  /\ pvOut.record.subkey # None
  /\ pvOut.record.key = [name |-> "commit", epoch |-> pvOut.epoch + 1]
  /\ pvOut.elapsed = 20
  /\ pvOut.record.expOff <= MaxCommitTime
  /\ pvAccepted[<< pvOut.epoch, "commit", pvOut.record.subkey[1] >>] = 0
  /\ ~pvOut.result


C38_AcceptedAfterUnblock ==
  [][(/\ rlSent' = rlSent + 1
      /\ rlOut'.auth = "ok"
      /\ ~ip_banned_peers
      /\ blocked_peers # None
      /\ ~(rlNow < blocked_peers[1])
      /\ LET kept == PopOld(peer_requests, rlNow - LongWindow)
         IN DetectThreat(CountSince(kept, rlNow - ShortWindow),
                         CountSince(kept, rlNow - MediumWindow),
                         Len(kept), 0) = Normal)
       => rlOut'.result]_vars


\* the requests of a history that are left once its oldest ones are dropped
Remainders(requests) ==
  { SubSeq(requests, k, Len(requests)) : k \in 1..(Len(requests) + 1) }

\* C39: a peer's request history never holds more than max_requests_per_hour
\* entries, and an entry is added to it only for a request in which the rate
\* limiter found no threat
C39_HistoryOfAllowedRequests ==
  [][/\ Len(peer_requests') <= MaxRequestsPerHour
     /\ \/ peer_requests' \in Remainders(peer_requests)
        \/ /\ \E kept \in Remainders(peer_requests) :
                peer_requests' = Append(kept, rlNow)
           /\ rlSent' = rlSent + 1
           /\ rlOut'.threat = Normal]_vars

\* the history is full and a request under the per-minute limit was turned
\* away at the hourly one, without being recorded
C39_Witness ==
  /\ Len(peer_requests) = MaxRequestsPerHour
  /\ rlOut.called /\ rlOut.auth = "ok" /\ ~rlOut.result
  /\ rlOut.threat = Moderate
  /\ CountSince(peer_requests, rlOut.time - MediumWindow) < MaxRequestsPerMinute


\* C33: when get_rewards_validator answers with a null sentinel (None or the
\* string 'None') and the wait ends on it, run_consensus takes neither the
\* validator nor the attestor branch and sends nothing to the chain
C33_NullValidatorNotChosen ==
  obs.waitEnd = "null" =>
    (obs.role = "none" /\ obs.proposes = 0 /\ obs.attests = 0)


\* C34: a comparison that ends in a mismatch does not replace the locally
\* kept previous_epoch_data: it still holds what it held on entry
C34_MismatchKeepsPrevious ==
  (cmpIn.called /\ ~cmpOut.raised /\ ~cmpOut.success) => cmpPrev = cmpIn.prev


\* C35: whenever run_is_node_validator (Phase B) or run_forever (Phase C)
\* passes self.slot to get_subnet_epoch_data, the slot was captured in Phase A
\* and is not None
C35_SlotKnownAfterPhaseA ==
  [][(/\ ~aStop
      /\ \/ aPc = "b_loop" /\ aPc' # "b_loop"
         \/ aPc = "forever" /\ aPc' = "consensus")
       => slot # None]_vars


\* C40: an announce call is never lost. After announce(ONLINE) has returned
\* the thread publishes a heartbeat with that state (or a later one) before
\* any update period runs out, and once announce(OFFLINE) has returned a
\* heartbeat carrying OFFLINE has been published since it was called
C40_AnnounceNeverLost ==
  /\ hbOnline # "slept"
  /\ hbCaller = "joined" => \E i \in DOMAIN hbAfter : hbAfter[i] = "OFFLINE"

\* the half of C40 that is about announce(ONLINE)
C40_OnlineNotSleptOut == hbOnline # "slept"

\* announce(ONLINE) has returned and its heartbeat is out
C40_OnlinePublished == hbOnline = "published" /\ hbBeats = 0

====
